---- MODULE Spec2Model ----
(***************************************************************************)
(* A model of the SWAT+ dataset selector's relationship resolution:       *)
(* the tokenizer (swatFileParser), the database helper                    *)
(* (swatDatabaseHelper), the dataset selection (swatWebviewProvider) and   *)
(* the definition / hover / code-lens / code-action providers that         *)
(* compose them.                                                           *)
(*                                                                         *)
(* A string of the program is a sequence of one-character strings, so     *)
(* that offsets, the identifier pattern and lower-casing are computed as   *)
(* the code computes them.  Offsets are the 0-based offsets of the         *)
(* TypeScript source: the character at offset j of a line is line[j + 1].  *)
(***************************************************************************)
EXTENDS Integers, Sequences, FiniteSets, TLC

VARIABLES
    pc,               \* the last step taken ("start" after construction)
    line,             \* tokenizer input: the line handed to parseLineTokens
    charPosition,     \* tokenizer input: the cursor offset
    tokens,           \* parseLineTokens' result
    cursorToken,      \* findTokenAtPosition's result
    lines,            \* findHeaderLine input: the file's lines
    maxLinesToCheck,  \* findHeaderLine input: the window
    headerLineIndex,  \* findHeaderLine's result
    sqlite3,          \* SwatDatabaseHelper.sqlite3: TRUE when better-sqlite3 loaded
    fileSystem,       \* dataset root -> its project.db and its text files
    selectedDataset,  \* SwatDatasetWebviewProvider.selectedDataset
    recentDatasets,   \* SwatDatasetWebviewProvider.recentDatasets
    globalState,      \* context.globalState's 'recentDatasets'
    selectedDatabase, \* SwatDatasetWebviewProvider.selectedDatabase
    storedDatabase,   \* context.globalState's 'selectedDatabase'
    request,          \* the inputs of the last provider request or helper call
    result,           \* what it returned
    calls,            \* the database-helper calls and file scans it made, in order
    earlier,          \* history: a request served earlier, with its answer
    panel,            \* SwatDatabaseBrowserProvider.panel
    panels,           \* the webview panels that exist: panel -> its html
    panelsCreated     \* how many panels createWebviewPanel has made

vars == <<pc, line, charPosition, tokens, cursorToken, lines, maxLinesToCheck,
          headerLineIndex, sqlite3, fileSystem, selectedDataset,
          recentDatasets, globalState, selectedDatabase, storedDatabase,
          request, result, calls, earlier, panel, panels, panelsCreated>>

tokVars == <<line, charPosition, tokens, cursorToken>>
hdrVars == <<lines, maxLinesToCheck, headerLineIndex>>
envVars == <<sqlite3, fileSystem>>
selVars == <<selectedDataset, recentDatasets, globalState, selectedDatabase,
            storedDatabase>>
reqVars == <<request, result, calls>>
histVars == <<earlier>>
browserVars == <<panel, panels, panelsCreated>>

\* private panel: vscode.WebviewPanel | undefined, when undefined; the
\* panels themselves are numbered from 1 in the order of their creation
NoPanel == 0

(***************************************************************************)
(* Bounds of the model.                                                    *)
(***************************************************************************)
MaxLineLen == 5
MaxDocLines == 4
MaxWindow == 3
MaxIdentLen == 2

(***************************************************************************)
(* Characters.                                                             *)
(***************************************************************************)
\* the characters JavaScript's \s (and String.prototype.trim) treats as blank
WhitespaceChars == {" ", "\t", "\r", "\n", "\f"}

IsWhitespace(char) == char \in WhitespaceChars

\* all sequences over S of length at most n
SeqsUpTo(S, n) == UNION {[1..k -> S] : k \in 0..n}

\* line.trim(): the line without its leading and trailing blanks
RECURSIVE TrimStart(_)
TrimStart(s) ==
    IF s = <<>> THEN <<>>
    ELSE IF IsWhitespace(Head(s)) THEN TrimStart(Tail(s)) ELSE s

RECURSIVE TrimEnd(_)
TrimEnd(s) ==
    IF s = <<>> THEN <<>>
    ELSE IF IsWhitespace(s[Len(s)]) THEN TrimEnd(SubSeq(s, 1, Len(s) - 1)) ELSE s

Trim(s) == TrimEnd(TrimStart(s))

(***************************************************************************)
(* swatFileParser: parseLineTokens.                                        *)
(***************************************************************************)
\* the loop's locals before its first iteration
ParseStart ==
    [tokens |-> <<>>, currentToken |-> <<>>, tokenStart |-> -1,
     inWhitespace |-> TRUE]

\* the for loop over the line's characters, from offset i on
RECURSIVE ParseLoop(_, _, _)
ParseLoop(ln, i, st) ==
    IF i >= Len(ln) THEN st
    ELSE
        LET char == ln[i + 1]
            isWhitespace == IsWhitespace(char)
        IN  IF isWhitespace
            THEN IF ~st.inWhitespace /\ Len(st.currentToken) > 0
                 THEN ParseLoop(ln, i + 1,
                        [tokens |-> Append(st.tokens,
                                      [value |-> st.currentToken,
                                       start |-> st.tokenStart,
                                       end |-> i]),
                         currentToken |-> <<>>,
                         tokenStart |-> -1,
                         inWhitespace |-> TRUE])
                 ELSE ParseLoop(ln, i + 1, [st EXCEPT !.inWhitespace = TRUE])
            ELSE ParseLoop(ln, i + 1,
                        [tokens |-> st.tokens,
                         currentToken |-> Append(st.currentToken, char),
                         tokenStart |-> IF st.inWhitespace THEN i
                                        ELSE st.tokenStart,
                         inWhitespace |-> FALSE])

\* a plausible slip: the last token is closed one character early
parseLineTokensShortEnd(ln) ==
    LET st == ParseLoop(ln, 0, ParseStart)
    IN  IF Len(st.currentToken) > 0 /\ st.tokenStart >= 0
        THEN Append(st.tokens, [value |-> st.currentToken,
                                start |-> st.tokenStart,
                                end |-> Len(ln) - 1])
        ELSE st.tokens

\* a plausible slip: the token still open at the end of the line is dropped
parseLineTokensNoFlush(ln) == ParseLoop(ln, 0, ParseStart).tokens

parseLineTokens(ln) ==
    LET st == ParseLoop(ln, 0, ParseStart)
    IN  IF Len(st.currentToken) > 0 /\ st.tokenStart >= 0
        THEN Append(st.tokens, [value |-> st.currentToken,
                                start |-> st.tokenStart,
                                end |-> Len(ln)])
        ELSE st.tokens

(***************************************************************************)
(* swatFileParser: findTokenAtPosition.                                    *)
(***************************************************************************)
NoToken == [found |-> FALSE]

FoundToken(t, i) == [found |-> TRUE, token |-> t, index |-> i]

\* a plausible slip: the end bound taken inclusive
RECURSIVE FindLoopInclusive(_, _, _)
FindLoopInclusive(toks, position, i) ==
    IF i >= Len(toks) THEN NoToken
    ELSE IF position >= toks[i + 1].start /\ position <= toks[i + 1].end
         THEN FoundToken(toks[i + 1], i)
         ELSE FindLoopInclusive(toks, position, i + 1)

findTokenAtPositionInclusive(toks, position) ==
    FindLoopInclusive(toks, position, 0)

\* the for loop over the tokens, from index i on
RECURSIVE FindLoop(_, _, _)
FindLoop(toks, position, i) ==
    IF i >= Len(toks) THEN NoToken
    ELSE IF position >= toks[i + 1].start /\ position < toks[i + 1].end
         THEN FoundToken(toks[i + 1], i)
         ELSE FindLoop(toks, position, i + 1)

findTokenAtPosition(toks, position) == FindLoop(toks, position, 0)

(***************************************************************************)
(* swatFileParser: findHeaderLine.                                         *)
(***************************************************************************)
Min(a, b) == IF a < b THEN a ELSE b

\* trimmed.startsWith('#')
StartsWithHash(s) == Len(s) > 0 /\ s[1] = "#"

\* a plausible slip: the window is not applied
RECURSIVE HeaderLoopNoWindow(_, _)
HeaderLoopNoWindow(ls, i) ==
    IF i >= Len(ls) THEN -1
    ELSE LET trimmed == Trim(ls[i + 1])
         IN  IF Len(trimmed) > 0 /\ ~StartsWithHash(trimmed) THEN i
             ELSE HeaderLoopNoWindow(ls, i + 1)

findHeaderLineNoWindow(ls, maxLines) == HeaderLoopNoWindow(ls, 0)

\* the for loop over the first lines, from index i on
RECURSIVE HeaderLoop(_, _, _)
HeaderLoop(ls, maxLines, i) ==
    IF i >= Min(maxLines, Len(ls)) THEN -1
    ELSE LET trimmed == Trim(ls[i + 1])
         IN  IF Len(trimmed) > 0 /\ ~StartsWithHash(trimmed) THEN i
             ELSE HeaderLoop(ls, maxLines, i + 1)

findHeaderLine(ls, maxLines) == HeaderLoop(ls, maxLines, 0)

(***************************************************************************)
(* JavaScript values.                                                      *)
(***************************************************************************)
Null == [kind |-> "null"]

Undefined == [kind |-> "undefined"]

Array(items) == [kind |-> "array", items |-> items]

Boolean(b) == [kind |-> "boolean", value |-> b]

\* a row of a table, as better-sqlite3 returns it: column name -> text
Row(fields) == [kind |-> "row", fields |-> fields]

\* if (v): a record or a result object is truthy, null and undefined are not
Truthy(v) == v.kind \notin {"null", "undefined"}

LowerCaseLetters ==
    {"a", "b", "c", "d", "e", "f", "g", "h", "i", "j", "k", "l", "m", "n",
     "o", "p", "q", "r", "s", "t", "u", "v", "w", "x", "y", "z"}

UpperCaseLetters ==
    {"A", "B", "C", "D", "E", "F", "G", "H", "I", "J", "K", "L", "M", "N",
     "O", "P", "Q", "R", "S", "T", "U", "V", "W", "X", "Y", "Z"}

Digits == {"0", "1", "2", "3", "4", "5", "6", "7", "8", "9"}

UpperToLower ==
    ("A" :> "a") @@ ("B" :> "b") @@ ("C" :> "c") @@ ("D" :> "d")
    @@ ("E" :> "e") @@ ("F" :> "f") @@ ("G" :> "g") @@ ("H" :> "h")
    @@ ("I" :> "i") @@ ("J" :> "j") @@ ("K" :> "k") @@ ("L" :> "l")
    @@ ("M" :> "m") @@ ("N" :> "n") @@ ("O" :> "o") @@ ("P" :> "p")
    @@ ("Q" :> "q") @@ ("R" :> "r") @@ ("S" :> "s") @@ ("T" :> "t")
    @@ ("U" :> "u") @@ ("V" :> "v") @@ ("W" :> "w") @@ ("X" :> "x")
    @@ ("Y" :> "y") @@ ("Z" :> "z")

\* s.toLowerCase()
ToLowerCase(s) ==
    [k \in 1..Len(s) |->
        IF s[k] \in UpperCaseLetters THEN UpperToLower[s[k]] ELSE s[k]]

(***************************************************************************)
(* The file system.  A path is a directory and a name in it; a dataset     *)
(* directory holds text files (name -> lines) and may hold a project.db.   *)
(***************************************************************************)
\* path.join(dir, name)
PathJoin(dir, name) == [kind |-> "path", dir |-> dir, name |-> name]

ProjectDbName == <<"p", "r", "o", "j", "e", "c", "t", ".", "d", "b">>

\* the SQLite file at dbPath
DbAt(fs, dbPath) ==
    IF dbPath.dir \in DOMAIN fs /\ dbPath.name = ProjectDbName
    THEN fs[dbPath.dir].db
    ELSE [state |-> "missing"]

\* fs.existsSync(p)
ExistsSync(fs, p) ==
    /\ p.dir \in DOMAIN fs
    /\ \/ p.name \in DOMAIN fs[p.dir].files
       \/ p.name = ProjectDbName /\ fs[p.dir].db.state # "missing"

(***************************************************************************)
(* better-sqlite3, as the helper uses it.  A database file is missing,     *)
(* corrupt (every statement fails to prepare) or holds tables: for each    *)
(* table (under its lower-case name: SQLite resolves identifiers without   *)
(* regard to case) its columns, its declared foreign keys in the order     *)
(* PRAGMA foreign_key_list reports them, and its rows in rowid order.      *)
(* Values are text and are compared as text.                               *)
(***************************************************************************)
HasTable(db, tableName) == ToLowerCase(tableName) \in DOMAIN db.tables

TableOf(db, tableName) == db.tables[ToLowerCase(tableName)]

\* db.prepare(`PRAGMA foreign_key_list(t)`).all(): no row for an unknown table
ForeignKeyList(db, tableName) ==
    IF HasTable(db, tableName) THEN TableOf(db, tableName).fks ELSE <<>>

\* the statement cannot be prepared: no such table, or no such column
SelectFails(db, tableName, columnName) ==
    \/ ~HasTable(db, tableName)
    \/ ToLowerCase(columnName) \notin TableOf(db, tableName).columns

\* stmt.get(value): the first row whose column equals value, else undefined
RECURSIVE FirstRowWhere(_, _, _)
FirstRowWhere(rows, columnName, value) ==
    IF rows = <<>> THEN Undefined
    ELSE IF Head(rows)[columnName] = value THEN Row(Head(rows))
         ELSE FirstRowWhere(Tail(rows), columnName, value)

SelectWhere(db, tableName, columnName, value) ==
    FirstRowWhere(TableOf(db, tableName).rows, ToLowerCase(columnName), value)

\* the texts handed to db.prepare: the kind of statement, the identifiers
\* interpolated into its text, and the values bound to its placeholders
PragmaForeignKeyListStmt(tableName) ==
    [sql |-> "PRAGMA foreign_key_list(${0})", idents |-> <<tableName>>]

SelectWhereStmt(tableName, columnName) ==
    [sql |-> "SELECT * FROM ${0} WHERE ${1} = ?",
     idents |-> <<tableName, columnName>>]

SelectByNameStmt(tableName) ==
    [sql |-> "SELECT * FROM ${0} WHERE name = ? LIMIT 1",
     idents |-> <<tableName>>]

TableExistsStmt ==
    [sql |-> "SELECT name FROM sqlite_master WHERE type='table' AND name=?",
     idents |-> <<>>]

AvailableTablesStmt ==
    [sql |-> "SELECT name FROM sqlite_master WHERE type='table' AND name NOT LIKE 'sqlite_%' ORDER BY name",
     idents |-> <<>>]

(***************************************************************************)
(* How a helper method ends: the value returned, the statements handed to  *)
(* prepare, whether an exception left it, the connections opened           *)
(* (read-only) and those of them it closed.                                *)
(***************************************************************************)
Returned(ret, prepared, opened, closed) ==
    [ret |-> ret, prepared |-> prepared, exc |-> FALSE,
     opened |-> opened, closed |-> closed]

Thrown(prepared, opened, closed) ==
    [ret |-> Undefined, prepared |-> prepared, exc |-> TRUE,
     opened |-> opened, closed |-> closed]

\* a plausible slip: no try / catch around the database work
CatchNothing(body, onError) == body

\* try { body } catch (error) { console.error(...); return onError; }
Catch(body, onError) ==
    IF body.exc THEN [body EXCEPT !.ret = onError, !.exc = FALSE] ELSE body

(***************************************************************************)
(* swatDatabaseHelper.                                                     *)
(***************************************************************************)
\* isAvailable()
isAvailable(sq) == sq

\* getProjectDbPath(datasetPath)
getProjectDbPath(fs, datasetPath) ==
    LET dbPath == PathJoin(datasetPath, ProjectDbName)
    IN  IF ExistsSync(fs, dbPath) THEN dbPath ELSE Undefined

\* /^[a-zA-Z][a-zA-Z0-9_]*$/.test(name)
MatchesIdentifier(name) ==
    /\ Len(name) >= 1
    /\ name[1] \in LowerCaseLetters \cup UpperCaseLetters
    /\ \A k \in 2..Len(name) :
          name[k] \in LowerCaseLetters \cup UpperCaseLetters \cup Digits \cup {"_"}

\* a plausible slip: the pattern without its first-character class
isValidTableNameLoose(tableName) ==
    \A k \in 1..Len(tableName) :
        tableName[k] \in LowerCaseLetters \cup UpperCaseLetters \cup Digits \cup {"_"}

isValidTableName(tableName) == MatchesIdentifier(tableName)

\* a plausible slip: any column name passes
isValidColumnNameLoose(columnName) == TRUE

isValidColumnName(columnName) == MatchesIdentifier(columnName)

\* getFileNameForTable's tableToFileMap
tableToFileMap ==
    \* 'hydrology_hyd': 'hydrology.hyd'
       (<<"h", "y", "d", "r", "o", "l", "o", "g", "y", "_", "h", "y", "d">> :> <<"h", "y", "d", "r", "o", "l", "o", "g", "y", ".", "h", "y", "d">>)
    \* 'topography_hyd': 'topography.hyd'
    @@ (<<"t", "o", "p", "o", "g", "r", "a", "p", "h", "y", "_", "h", "y", "d">> :> <<"t", "o", "p", "o", "g", "r", "a", "p", "h", "y", ".", "h", "y", "d">>)
    \* 'field_fld': 'field.fld'
    @@ (<<"f", "i", "e", "l", "d", "_", "f", "l", "d">> :> <<"f", "i", "e", "l", "d", ".", "f", "l", "d">>)
    \* 'soils_sol': 'soils.sol'
    @@ (<<"s", "o", "i", "l", "s", "_", "s", "o", "l">> :> <<"s", "o", "i", "l", "s", ".", "s", "o", "l">>)
    \* 'landuse_lum': 'landuse.lum'
    @@ (<<"l", "a", "n", "d", "u", "s", "e", "_", "l", "u", "m">> :> <<"l", "a", "n", "d", "u", "s", "e", ".", "l", "u", "m">>)
    \* 'soil_plant_ini': 'soil_plant.ini'
    @@ (<<"s", "o", "i", "l", "_", "p", "l", "a", "n", "t", "_", "i", "n", "i">> :> <<"s", "o", "i", "l", "_", "p", "l", "a", "n", "t", ".", "i", "n", "i">>)
    \* 'wetland_wet': 'wetland.wet'
    @@ (<<"w", "e", "t", "l", "a", "n", "d", "_", "w", "e", "t">> :> <<"w", "e", "t", "l", "a", "n", "d", ".", "w", "e", "t">>)
    \* 'snow_sno': 'snow.sno'
    @@ (<<"s", "n", "o", "w", "_", "s", "n", "o">> :> <<"s", "n", "o", "w", ".", "s", "n", "o">>)
    \* 'hru_data_hru': 'hru-data.hru'
    @@ (<<"h", "r", "u", "_", "d", "a", "t", "a", "_", "h", "r", "u">> :> <<"h", "r", "u", "-", "d", "a", "t", "a", ".", "h", "r", "u">>)
    \* 'hru_lte_hru': 'hru-lte.hru'
    @@ (<<"h", "r", "u", "_", "l", "t", "e", "_", "h", "r", "u">> :> <<"h", "r", "u", "-", "l", "t", "e", ".", "h", "r", "u">>)
    \* 'plants_plt': 'plants.plt'
    @@ (<<"p", "l", "a", "n", "t", "s", "_", "p", "l", "t">> :> <<"p", "l", "a", "n", "t", "s", ".", "p", "l", "t">>)
    \* 'd_table_dtl': 'd_table.dtl'
    @@ (<<"d", "_", "t", "a", "b", "l", "e", "_", "d", "t", "l">> :> <<"d", "_", "t", "a", "b", "l", "e", ".", "d", "t", "l">>)
    \* 'soils_lte_sol': 'soils_lte.sol'
    @@ (<<"s", "o", "i", "l", "s", "_", "l", "t", "e", "_", "s", "o", "l">> :> <<"s", "o", "i", "l", "s", "_", "l", "t", "e", ".", "s", "o", "l">>)
    \* 'aquifer_aqu': 'aquifer.aqu'
    @@ (<<"a", "q", "u", "i", "f", "e", "r", "_", "a", "q", "u">> :> <<"a", "q", "u", "i", "f", "e", "r", ".", "a", "q", "u">>)
    \* 'initial_aqu': 'initial.aqu'
    @@ (<<"i", "n", "i", "t", "i", "a", "l", "_", "a", "q", "u">> :> <<"i", "n", "i", "t", "i", "a", "l", ".", "a", "q", "u">>)

\* getTableNameForFile's fileToTableMap
fileToTableMap ==
    \* 'hru-data.hru': 'hru_data_hru'
       (<<"h", "r", "u", "-", "d", "a", "t", "a", ".", "h", "r", "u">> :> <<"h", "r", "u", "_", "d", "a", "t", "a", "_", "h", "r", "u">>)
    \* 'hru-lte.hru': 'hru_lte_hru'
    @@ (<<"h", "r", "u", "-", "l", "t", "e", ".", "h", "r", "u">> :> <<"h", "r", "u", "_", "l", "t", "e", "_", "h", "r", "u">>)
    \* 'hydrology.hyd': 'hydrology_hyd'
    @@ (<<"h", "y", "d", "r", "o", "l", "o", "g", "y", ".", "h", "y", "d">> :> <<"h", "y", "d", "r", "o", "l", "o", "g", "y", "_", "h", "y", "d">>)
    \* 'topography.hyd': 'topography_hyd'
    @@ (<<"t", "o", "p", "o", "g", "r", "a", "p", "h", "y", ".", "h", "y", "d">> :> <<"t", "o", "p", "o", "g", "r", "a", "p", "h", "y", "_", "h", "y", "d">>)
    \* 'field.fld': 'field_fld'
    @@ (<<"f", "i", "e", "l", "d", ".", "f", "l", "d">> :> <<"f", "i", "e", "l", "d", "_", "f", "l", "d">>)
    \* 'soils.sol': 'soils_sol'
    @@ (<<"s", "o", "i", "l", "s", ".", "s", "o", "l">> :> <<"s", "o", "i", "l", "s", "_", "s", "o", "l">>)
    \* 'landuse.lum': 'landuse_lum'
    @@ (<<"l", "a", "n", "d", "u", "s", "e", ".", "l", "u", "m">> :> <<"l", "a", "n", "d", "u", "s", "e", "_", "l", "u", "m">>)
    \* 'soil_plant.ini': 'soil_plant_ini'
    @@ (<<"s", "o", "i", "l", "_", "p", "l", "a", "n", "t", ".", "i", "n", "i">> :> <<"s", "o", "i", "l", "_", "p", "l", "a", "n", "t", "_", "i", "n", "i">>)
    \* 'wetland.wet': 'wetland_wet'
    @@ (<<"w", "e", "t", "l", "a", "n", "d", ".", "w", "e", "t">> :> <<"w", "e", "t", "l", "a", "n", "d", "_", "w", "e", "t">>)
    \* 'snow.sno': 'snow_sno'
    @@ (<<"s", "n", "o", "w", ".", "s", "n", "o">> :> <<"s", "n", "o", "w", "_", "s", "n", "o">>)
    \* 'plants.plt': 'plants_plt'
    @@ (<<"p", "l", "a", "n", "t", "s", ".", "p", "l", "t">> :> <<"p", "l", "a", "n", "t", "s", "_", "p", "l", "t">>)
    \* 'd_table.dtl': 'd_table_dtl'
    @@ (<<"d", "_", "t", "a", "b", "l", "e", ".", "d", "t", "l">> :> <<"d", "_", "t", "a", "b", "l", "e", "_", "d", "t", "l">>)
    \* 'soils_lte.sol': 'soils_lte_sol'
    @@ (<<"s", "o", "i", "l", "s", "_", "l", "t", "e", ".", "s", "o", "l">> :> <<"s", "o", "i", "l", "s", "_", "l", "t", "e", "_", "s", "o", "l">>)
    \* 'aquifer.aqu': 'aquifer_aqu'
    @@ (<<"a", "q", "u", "i", "f", "e", "r", ".", "a", "q", "u">> :> <<"a", "q", "u", "i", "f", "e", "r", "_", "a", "q", "u">>)
    \* 'initial.aqu': 'initial_aqu'
    @@ (<<"i", "n", "i", "t", "i", "a", "l", ".", "a", "q", "u">> :> <<"i", "n", "i", "t", "i", "a", "l", "_", "a", "q", "u">>)

DotTxt == <<".", "t", "x", "t">>

\* a plausible slip: the fallback name without the lookup
getFileNameForTableTxt(tableName) == tableName \o DotTxt

\* getFileNameForTable(tableName)
getFileNameForTable(tableName) ==
    IF ToLowerCase(tableName) \in DOMAIN tableToFileMap
    THEN tableToFileMap[ToLowerCase(tableName)]
    ELSE tableName \o DotTxt

\* a string-valued lookup that found nothing: undefined, which the callers
\* only test with !s, as they would the empty string
NoString == <<>>

\* a plausible slip: an unknown file is taken for the table of its own name
getTableNameForFileAny(fileName) ==
    IF ToLowerCase(fileName) \in DOMAIN fileToTableMap
    THEN fileToTableMap[ToLowerCase(fileName)]
    ELSE fileName

\* getTableNameForFile(fileName)
getTableNameForFile(fileName) ==
    IF ToLowerCase(fileName) \in DOMAIN fileToTableMap
    THEN fileToTableMap[ToLowerCase(fileName)]
    ELSE NoString

\* foreignKeys.find(fkey => fkey.from === sourceColumn)
RECURSIVE FindForeignKey(_, _)
FindForeignKey(foreignKeys, sourceColumn) ==
    IF foreignKeys = <<>> THEN Undefined
    ELSE IF Head(foreignKeys).from = sourceColumn
         THEN [kind |-> "fk", table |-> Head(foreignKeys).table,
               to |-> Head(foreignKeys).to]
         ELSE FindForeignKey(Tail(foreignKeys), sourceColumn)

IdColumn == <<"i", "d">>

NameColumn == <<"n", "a", "m", "e">>

\* the try block of resolveForeignKey
resolveForeignKeyTry(fs, dbPath, sourceTable, sourceColumn, sourceValue) ==
    LET db == DbAt(fs, dbPath)
        pragmaStmt == PragmaForeignKeyListStmt(sourceTable)
    IN  IF db.state = "missing" THEN Thrown(<<>>, 0, 0)
        ELSE IF db.state = "corrupt" THEN Thrown(<<pragmaStmt>>, 1, 0)
        ELSE
          LET fk == FindForeignKey(ForeignKeyList(db, sourceTable), sourceColumn)
          IN  IF ~Truthy(fk) THEN Returned(Null, <<pragmaStmt>>, 1, 1)
              ELSE
                LET targetTable == fk.table
                    \* fk.to || 'id': a null and an empty target column are falsy
                    targetColumn == IF fk.to = <<>> THEN IdColumn ELSE fk.to
                    query == SelectWhereStmt(targetTable, targetColumn)
                IN  IF ~isValidTableName(targetTable)
                          \/ ~isValidColumnName(targetColumn)
                    THEN Returned(Null, <<pragmaStmt>>, 1, 1)
                    ELSE IF SelectFails(db, targetTable, targetColumn)
                    THEN Thrown(<<pragmaStmt, query>>, 1, 0)
                    ELSE
                      LET record == SelectWhere(db, targetTable, targetColumn,
                                                sourceValue)
                      IN  IF Truthy(record)
                          THEN Returned(
                                 [kind |-> "resolved",
                                  targetTable |-> targetTable,
                                  targetColumn |-> targetColumn,
                                  record |-> record,
                                  fileName |-> getFileNameForTable(targetTable)],
                                 <<pragmaStmt, query>>, 1, 1)
                          ELSE Returned(Null, <<pragmaStmt, query>>, 1, 1)

\* resolveForeignKey(dbPath, sourceTable, sourceColumn, sourceValue)
resolveForeignKey(sq, fs, dbPath, sourceTable, sourceColumn, sourceValue) ==
    IF ~sq THEN Returned(Null, <<>>, 0, 0)
    ELSE IF ~isValidTableName(sourceTable) \/ ~isValidColumnName(sourceColumn)
    THEN Returned(Null, <<>>, 0, 0)
    ELSE Catch(resolveForeignKeyTry(fs, dbPath, sourceTable, sourceColumn,
                                    sourceValue), Null)

\* the try block of findRecordByName
findRecordByNameTry(fs, dbPath, tableName, recordName) ==
    LET db == DbAt(fs, dbPath)
        query == SelectByNameStmt(tableName)
    IN  IF db.state = "missing" THEN Thrown(<<>>, 0, 0)
        ELSE IF db.state = "corrupt" \/ SelectFails(db, tableName, NameColumn)
        THEN Thrown(<<query>>, 1, 0)
        ELSE Returned(SelectWhere(db, tableName, NameColumn, recordName),
                      <<query>>, 1, 1)

\* findRecordByName(dbPath, tableName, recordName)
findRecordByName(sq, fs, dbPath, tableName, recordName) ==
    IF ~sq THEN Returned(Null, <<>>, 0, 0)
    ELSE IF ~isValidTableName(tableName) THEN Returned(Null, <<>>, 0, 0)
    ELSE Catch(findRecordByNameTry(fs, dbPath, tableName, recordName), Null)

\* the try block of getForeignKeyColumns
getForeignKeyColumnsTry(fs, dbPath, tableName) ==
    LET db == DbAt(fs, dbPath)
        pragmaStmt == PragmaForeignKeyListStmt(tableName)
    IN  IF db.state = "missing" THEN Thrown(<<>>, 0, 0)
        ELSE IF db.state = "corrupt" THEN Thrown(<<pragmaStmt>>, 1, 0)
        ELSE LET foreignKeys == ForeignKeyList(db, tableName)
             IN  Returned(Array([k \in 1..Len(foreignKeys) |->
                                    foreignKeys[k].from]),
                          <<pragmaStmt>>, 1, 1)

\* getForeignKeyColumns(dbPath, tableName)
getForeignKeyColumns(sq, fs, dbPath, tableName) ==
    IF ~sq THEN Returned(Array(<<>>), <<>>, 0, 0)
    ELSE IF ~isValidTableName(tableName) THEN Returned(Array(<<>>), <<>>, 0, 0)
    ELSE Catch(getForeignKeyColumnsTry(fs, dbPath, tableName), Array(<<>>))

\* name NOT LIKE 'sqlite_%': in LIKE, _ stands for any one character
IsSqliteInternal(name) ==
    Len(name) >= 7 /\ ToLowerCase(SubSeq(name, 1, 6)) = <<"s", "q", "l", "i", "t", "e">>

\* the rows of sqlite_master for tables, in ORDER BY name order
RECURSIVE UserTables(_)
UserTables(names) ==
    IF names = <<>> THEN <<>>
    ELSE IF IsSqliteInternal(Head(names)) THEN UserTables(Tail(names))
         ELSE <<Head(names)>> \o UserTables(Tail(names))

\* the try block of getAvailableTables
getAvailableTablesTry(fs, dbPath) ==
    LET db == DbAt(fs, dbPath)
    IN  IF db.state = "missing" THEN Thrown(<<>>, 0, 0)
        ELSE IF db.state = "corrupt" THEN Thrown(<<AvailableTablesStmt>>, 1, 0)
        ELSE Returned(Array(UserTables(db.master)), <<AvailableTablesStmt>>, 1, 1)

\* getAvailableTables(dbPath)
getAvailableTables(sq, fs, dbPath) ==
    IF ~sq THEN Returned(Array(<<>>), <<>>, 0, 0)
    ELSE Catch(getAvailableTablesTry(fs, dbPath), Array(<<>>))

\* the try block of tableExists
tableExistsTry(fs, dbPath, tableName) ==
    LET db == DbAt(fs, dbPath)
    IN  IF db.state = "missing" THEN Thrown(<<>>, 0, 0)
        ELSE IF db.state = "corrupt" THEN Thrown(<<TableExistsStmt>>, 1, 0)
        ELSE Returned(Boolean(\E k \in 1..Len(db.master) : db.master[k] = tableName),
                      <<TableExistsStmt>>, 1, 1)

\* tableExists(dbPath, tableName)
tableExists(sq, fs, dbPath, tableName) ==
    IF ~sq THEN Returned(Boolean(FALSE), <<>>, 0, 0)
    ELSE IF ~isValidTableName(tableName) THEN Returned(Boolean(FALSE), <<>>, 0, 0)
    ELSE Catch(tableExistsTry(fs, dbPath, tableName), Boolean(FALSE))

(***************************************************************************)
(* The dataset selection (swatWebviewProvider).                            *)
(***************************************************************************)
\* no dataset selected: getSelectedDataset() returns undefined
NoDataset == ""

\* no database selected: getSelectedDatabase() returns undefined
NoDatabase == ""

MaxRecentDatasets == 10

\* normalizeToPath(value), for the strings the commands pass
normalizeToPath(value) == value

\* list.filter(d => d !== p)
RECURSIVE Without(_, _)
Without(list, p) ==
    IF list = <<>> THEN <<>>
    ELSE IF Head(list) # p THEN <<Head(list)>> \o Without(Tail(list), p)
         ELSE Without(Tail(list), p)

\* list.slice(0, n)
Slice0(list, n) == SubSeq(list, 1, Min(n, Len(list)))

(***************************************************************************)
(* What a provider request yields: the value returned and the calls made   *)
(* on the way, in order (the parser steps, the database-helper calls with  *)
(* how each ended, the guesses and the file scans).                        *)
(***************************************************************************)
Outcome(ret, log) == [ret |-> ret, log |-> log]

\* one call of the database helper, as the log keeps it
HelperCall(op, dbPath, idents, out) ==
    [op |-> op, dbPath |-> dbPath, idents |-> idents, out |-> out]

HelperOps ==
    {"getForeignKeyColumns", "resolveForeignKey", "findRecordByName",
     "tableExists", "getAvailableTables"}

\* new vscode.Location(vscode.Uri.file(file), new vscode.Position(line, 0))
Location(file, lineNumber) ==
    [kind |-> "location", file |-> file, line |-> lineNumber, character |-> 0]

(***************************************************************************)
(* vscode.TextDocument.getWordRangeAtPosition with the default word        *)
(* pattern, on lines without signed or decimal numbers: a word is a        *)
(* maximal run of characters that are neither blank nor one of the         *)
(* separators, and the position may touch either end of it.                *)
(***************************************************************************)
WordSeparators ==
    {"`", "~", "!", "@", "#", "%", "^", "&", "*", "(", ")", "-", "=", "+",
     "[", "{", "]", "}", "\\", "|", ";", ":", "'", "\"", ",", ".", "<", ">",
     "/", "?"}

IsWordChar(char) == ~IsWhitespace(char) /\ char \notin WordSeparators

HasWordRangeAt(ln, character) ==
    \/ character < Len(ln) /\ IsWordChar(ln[character + 1])
    \/ character > 0 /\ character <= Len(ln) /\ IsWordChar(ln[character])

(***************************************************************************)
(* The providers' common opening of parseSwatFileLine / provideCodeActions: *)
(* header line, tokens, cursor token, column name and value.               *)
(***************************************************************************)
DefaultMaxLinesToCheck == 5

ParserStep(op) == [op |-> op]

NotLocated(log) == [found |-> FALSE, log |-> log]

\* a plausible slip: a token beyond the header's columns is read as a value
\* of the last column
LocateColumnClamped(document, position) ==
    LET headerLineIndexL == findHeaderLine(document.lines, DefaultMaxLinesToCheck)
    IN  IF headerLineIndexL = -1
        THEN NotLocated(<<ParserStep("findHeaderLine")>>)
        ELSE
          LET headerTokens == parseLineTokens(document.lines[headerLineIndexL + 1])
              valueTokens == parseLineTokens(document.lines[position.line + 1])
              cursor == findTokenAtPosition(valueTokens, position.character)
              log == <<ParserStep("findHeaderLine"), ParserStep("parseLineTokens"),
                       ParserStep("parseLineTokens"),
                       ParserStep("findTokenAtPosition")>>
          IN  IF ~cursor.found \/ Len(headerTokens) = 0 THEN NotLocated(log)
              ELSE [found |-> TRUE,
                    columnName |->
                        headerTokens[Min(cursor.index + 1, Len(headerTokens))].value,
                    columnValue |-> cursor.token.value,
                    log |-> log]

LocateColumn(document, position) ==
    LET headerLineIndexL == findHeaderLine(document.lines, DefaultMaxLinesToCheck)
    IN  IF headerLineIndexL = -1
        THEN NotLocated(<<ParserStep("findHeaderLine")>>)
        ELSE
          LET headerLine == document.lines[headerLineIndexL + 1]
              currentLine == document.lines[position.line + 1]
              headerTokens == parseLineTokens(headerLine)
              valueTokens == parseLineTokens(currentLine)
              cursor == findTokenAtPosition(valueTokens, position.character)
              log == <<ParserStep("findHeaderLine"), ParserStep("parseLineTokens"),
                       ParserStep("parseLineTokens"),
                       ParserStep("findTokenAtPosition")>>
          IN  IF ~cursor.found THEN NotLocated(log)
              ELSE IF cursor.index >= Len(headerTokens) THEN NotLocated(log)
              ELSE [found |-> TRUE,
                    columnName |-> headerTokens[cursor.index + 1].value,
                    columnValue |-> cursor.token.value,
                    log |-> log]

\* a plausible slip: every column passes for a foreign key
IncludesAnything(items, x) == TRUE

\* foreignKeys.includes(columnName)
Includes(items, x) == \E k \in 1..Len(items) : items[k] = x

(***************************************************************************)
(* swatDefinitionProvider.                                                 *)
(***************************************************************************)
\* a plausible slip: the scan keeps going and the last match wins
RECURSIVE RecordLineLoopLast(_, _, _)
RecordLineLoopLast(fileLines, name, i) ==
    IF i >= Len(fileLines) THEN -1
    ELSE LET trimmed == Trim(fileLines[i + 1])
             later == RecordLineLoopLast(fileLines, name, i + 1)
         IN  IF later # -1 THEN later
             ELSE IF Len(trimmed) = 0 \/ StartsWithHash(trimmed) THEN -1
             ELSE IF Len(parseLineTokens(trimmed)) > 0
                        /\ parseLineTokens(trimmed)[1].value = name
             THEN i
             ELSE -1

\* the for loop of findRecordLineInFile, from line i on
RECURSIVE RecordLineLoop(_, _, _)
RecordLineLoop(fileLines, name, i) ==
    IF i >= Len(fileLines) THEN -1
    ELSE LET trimmed == Trim(fileLines[i + 1])
         IN  IF Len(trimmed) = 0 \/ StartsWithHash(trimmed)
             THEN RecordLineLoop(fileLines, name, i + 1)
             ELSE LET lineTokens == parseLineTokens(trimmed)
                  IN  IF Len(lineTokens) > 0 /\ lineTokens[1].value = name
                      THEN i
                      ELSE RecordLineLoop(fileLines, name, i + 1)

\* fs.readFileSync(filePath, 'utf-8') throws: the file is missing, or it is
\* there and cannot be read (a dataset directory may list such files
\* under 'unreadable')
ReadFileSyncThrows(fs, filePath) ==
    \/ filePath.dir \notin DOMAIN fs
    \/ filePath.name \notin DOMAIN fs[filePath.dir].files
    \/ /\ "unreadable" \in DOMAIN fs[filePath.dir]
       /\ filePath.name \in fs[filePath.dir].unreadable

\* findRecordLineInFile(filePath, name): when readFileSync throws, the catch
\* returns -1
findRecordLineInFile(fs, filePath, name) ==
    IF ReadFileSyncThrows(fs, filePath)
    THEN -1
    ELSE RecordLineLoop(fs[filePath.dir].files[filePath.name], name, 0)

FileScan(filePath, name, lineNumber) ==
    [op |-> "findRecordLineInFile", file |-> filePath, name |-> name,
     ret |-> lineNumber]

\* findByNameInFiles' columnFileMap
columnFileMap ==
    \* 'hydro': 'hydrology.hyd'
       (<<"h", "y", "d", "r", "o">> :> <<"h", "y", "d", "r", "o", "l", "o", "g", "y", ".", "h", "y", "d">>)
    \* 'topo': 'topography.hyd'
    @@ (<<"t", "o", "p", "o">> :> <<"t", "o", "p", "o", "g", "r", "a", "p", "h", "y", ".", "h", "y", "d">>)
    \* 'field': 'field.fld'
    @@ (<<"f", "i", "e", "l", "d">> :> <<"f", "i", "e", "l", "d", ".", "f", "l", "d">>)
    \* 'soil': 'soils.sol'
    @@ (<<"s", "o", "i", "l">> :> <<"s", "o", "i", "l", "s", ".", "s", "o", "l">>)
    \* 'lu_mgt': 'landuse.lum'
    @@ (<<"l", "u", "_", "m", "g", "t">> :> <<"l", "a", "n", "d", "u", "s", "e", ".", "l", "u", "m">>)
    \* 'soil_plant_init': 'soil_plant.ini'
    @@ (<<"s", "o", "i", "l", "_", "p", "l", "a", "n", "t", "_", "i", "n", "i", "t">> :> <<"s", "o", "i", "l", "_", "p", "l", "a", "n", "t", ".", "i", "n", "i">>)
    \* 'surf_stor': 'wetland.wet'
    @@ (<<"s", "u", "r", "f", "_", "s", "t", "o", "r">> :> <<"w", "e", "t", "l", "a", "n", "d", ".", "w", "e", "t">>)
    \* 'snow': 'snow.sno'
    @@ (<<"s", "n", "o", "w">> :> <<"s", "n", "o", "w", ".", "s", "n", "o">>)

\* columnFileMap[columnName]
guessTargetFile(columnName) ==
    IF columnName \in DOMAIN columnFileMap THEN columnFileMap[columnName]
    ELSE NoString

\* a plausible slip: the fallback asks for the selected dataset again
\* instead of using the one its request started with
findByNameInFilesReselecting(fs, datasetPath, columnName, value) ==
    LET entry == [op |-> "findByNameInFiles", columnName |-> columnName,
                  value |-> value]
        targetFileName == guessTargetFile(columnName)
        targetFile == PathJoin(selectedDataset, targetFileName)
        lineNumber == findRecordLineInFile(fs, targetFile, value)
    IN  IF targetFileName = NoString THEN Outcome(Undefined, <<entry>>)
        ELSE IF ~ExistsSync(fs, targetFile) THEN Outcome(Undefined, <<entry>>)
        ELSE IF lineNumber # -1
        THEN Outcome(Location(targetFile, lineNumber),
                     <<entry, FileScan(targetFile, value, lineNumber)>>)
        ELSE Outcome(Undefined, <<entry, FileScan(targetFile, value, lineNumber)>>)

\* findByNameInFiles(datasetPath, columnName, value)
findByNameInFiles(fs, datasetPath, columnName, value) ==
    LET entry == [op |-> "findByNameInFiles", columnName |-> columnName,
                  value |-> value]
        targetFileName == guessTargetFile(columnName)
        targetFile == PathJoin(datasetPath, targetFileName)
        lineNumber == findRecordLineInFile(fs, targetFile, value)
    IN  IF targetFileName = NoString THEN Outcome(Undefined, <<entry>>)
        ELSE IF ~ExistsSync(fs, targetFile) THEN Outcome(Undefined, <<entry>>)
        ELSE IF lineNumber # -1
        THEN Outcome(Location(targetFile, lineNumber),
                     <<entry, FileScan(targetFile, value, lineNumber)>>)
        ELSE Outcome(Undefined, <<entry, FileScan(targetFile, value, lineNumber)>>)

\* a plausible slip: the file is scanned for the cursor's value
RecordNameOrValue(record, columnValue) == columnValue

\* result.record.name || columnValue
RecordNameOr(record, columnValue) ==
    IF NameColumn \in DOMAIN record.fields /\ record.fields[NameColumn] # <<>>
    THEN record.fields[NameColumn]
    ELSE columnValue

\* SwatDefinitionProvider.parseSwatFileLine
definitionParseSwatFileLine(sq, fs, document, position, tableName, dbPath, datasetPath) ==
    LET loc == LocateColumn(document, position)
    IN  IF ~loc.found THEN Outcome(Undefined, loc.log)
        ELSE
          LET fkCall == getForeignKeyColumns(sq, fs, dbPath, tableName)
              log1 == Append(loc.log, HelperCall("getForeignKeyColumns", dbPath,
                                                 <<tableName>>, fkCall))
          IN  IF fkCall.exc THEN Outcome(Undefined, log1)
              ELSE IF ~Includes(fkCall.ret.items, loc.columnName)
              THEN Outcome(Undefined, log1)
              ELSE
                LET rCall == resolveForeignKey(sq, fs, dbPath, tableName,
                                               loc.columnName, loc.columnValue)
                    log2 == Append(log1, HelperCall("resolveForeignKey", dbPath,
                                       <<tableName, loc.columnName>>, rCall))
                IN  IF rCall.exc THEN Outcome(Undefined, log2)
                    ELSE IF ~Truthy(rCall.ret)
                    THEN LET byName == findByNameInFiles(fs, datasetPath,
                                           loc.columnName, loc.columnValue)
                         IN  Outcome(byName.ret, log2 \o byName.log)
                    ELSE
                      LET targetFile == PathJoin(datasetPath, rCall.ret.fileName)
                          name == RecordNameOr(rCall.ret.record, loc.columnValue)
                          targetLineNumber == findRecordLineInFile(fs, targetFile, name)
                          log3 == Append(log2, FileScan(targetFile, name,
                                                        targetLineNumber))
                      IN  IF ~ExistsSync(fs, targetFile)
                          THEN Outcome(Undefined, log2)
                          ELSE IF targetLineNumber # -1
                          THEN Outcome(Location(targetFile, targetLineNumber), log3)
                          ELSE Outcome(Location(targetFile, 0), log3)

\* SwatDefinitionProvider.provideDefinition
provideDefinition(sq, fs, datasetPath, document, position) ==
    IF datasetPath = NoDataset THEN Outcome(Undefined, <<>>)
    ELSE
      LET dbPath == getProjectDbPath(fs, datasetPath)
          tableName == getTableNameForFile(document.fileName)
      IN  IF ~Truthy(dbPath) \/ ~isAvailable(sq) THEN Outcome(Undefined, <<>>)
          ELSE IF tableName = NoString THEN Outcome(Undefined, <<>>)
          ELSE IF ~HasWordRangeAt(document.lines[position.line + 1],
                                  position.character)
          THEN Outcome(Undefined, <<>>)
          ELSE definitionParseSwatFileLine(sq, fs, document, position,
                                           tableName, dbPath, datasetPath)

(***************************************************************************)
(* swatHoverProvider.                                                      *)
(***************************************************************************)
\* the hover provider's guessTargetTable: columnTableMap
hoverColumnTableMap ==
    \* 'hydro': 'hydrology_hyd'
       (<<"h", "y", "d", "r", "o">> :> <<"h", "y", "d", "r", "o", "l", "o", "g", "y", "_", "h", "y", "d">>)
    \* 'topo': 'topography_hyd'
    @@ (<<"t", "o", "p", "o">> :> <<"t", "o", "p", "o", "g", "r", "a", "p", "h", "y", "_", "h", "y", "d">>)
    \* 'field': 'field_fld'
    @@ (<<"f", "i", "e", "l", "d">> :> <<"f", "i", "e", "l", "d", "_", "f", "l", "d">>)
    \* 'soil': 'soils_sol'
    @@ (<<"s", "o", "i", "l">> :> <<"s", "o", "i", "l", "s", "_", "s", "o", "l">>)
    \* 'lu_mgt': 'landuse_lum'
    @@ (<<"l", "u", "_", "m", "g", "t">> :> <<"l", "a", "n", "d", "u", "s", "e", "_", "l", "u", "m">>)
    \* 'soil_plant_init': 'soil_plant_ini'
    @@ (<<"s", "o", "i", "l", "_", "p", "l", "a", "n", "t", "_", "i", "n", "i", "t">> :> <<"s", "o", "i", "l", "_", "p", "l", "a", "n", "t", "_", "i", "n", "i">>)
    \* 'surf_stor': 'wetland_wet'
    @@ (<<"s", "u", "r", "f", "_", "s", "t", "o", "r">> :> <<"w", "e", "t", "l", "a", "n", "d", "_", "w", "e", "t">>)
    \* 'snow': 'snow_sno'
    @@ (<<"s", "n", "o", "w">> :> <<"s", "n", "o", "w", "_", "s", "n", "o">>)
    \* 'plnt_typ': 'plants_plt'
    @@ (<<"p", "l", "n", "t", "_", "t", "y", "p">> :> <<"p", "l", "a", "n", "t", "s", "_", "p", "l", "t">>)
    \* 'soil_text': 'soils_lte_sol'
    @@ (<<"s", "o", "i", "l", "_", "t", "e", "x", "t">> :> <<"s", "o", "i", "l", "s", "_", "l", "t", "e", "_", "s", "o", "l">>)
    \* 'aquifer': 'aquifer_aqu'
    @@ (<<"a", "q", "u", "i", "f", "e", "r">> :> <<"a", "q", "u", "i", "f", "e", "r", "_", "a", "q", "u">>)
    \* 'aqu': 'aquifer_aqu'
    @@ (<<"a", "q", "u">> :> <<"a", "q", "u", "i", "f", "e", "r", "_", "a", "q", "u">>)
    \* 'reservoir': 'reservoir_res'
    @@ (<<"r", "e", "s", "e", "r", "v", "o", "i", "r">> :> <<"r", "e", "s", "e", "r", "v", "o", "i", "r", "_", "r", "e", "s">>)
    \* 'res': 'reservoir_res'
    @@ (<<"r", "e", "s">> :> <<"r", "e", "s", "e", "r", "v", "o", "i", "r", "_", "r", "e", "s">>)
    \* 'wetland': 'wetland_wet'
    @@ (<<"w", "e", "t", "l", "a", "n", "d">> :> <<"w", "e", "t", "l", "a", "n", "d", "_", "w", "e", "t">>)
    \* 'wet': 'wetland_wet'
    @@ (<<"w", "e", "t">> :> <<"w", "e", "t", "l", "a", "n", "d", "_", "w", "e", "t">>)
    \* 'channel': 'channel_cha'
    @@ (<<"c", "h", "a", "n", "n", "e", "l">> :> <<"c", "h", "a", "n", "n", "e", "l", "_", "c", "h", "a">>)
    \* 'cha': 'channel_cha'
    @@ (<<"c", "h", "a">> :> <<"c", "h", "a", "n", "n", "e", "l", "_", "c", "h", "a">>)
    \* 'connect': 'connect_con'
    @@ (<<"c", "o", "n", "n", "e", "c", "t">> :> <<"c", "o", "n", "n", "e", "c", "t", "_", "c", "o", "n">>)
    \* 'con': 'connect_con'
    @@ (<<"c", "o", "n">> :> <<"c", "o", "n", "n", "e", "c", "t", "_", "c", "o", "n">>)
    \* 'rout_unit': 'routing_unit_rtu'
    @@ (<<"r", "o", "u", "t", "_", "u", "n", "i", "t">> :> <<"r", "o", "u", "t", "i", "n", "g", "_", "u", "n", "i", "t", "_", "r", "t", "u">>)
    \* 'rtu': 'routing_unit_rtu'
    @@ (<<"r", "t", "u">> :> <<"r", "o", "u", "t", "i", "n", "g", "_", "u", "n", "i", "t", "_", "r", "t", "u">>)
    \* 'elements': 'elements_ele'
    @@ (<<"e", "l", "e", "m", "e", "n", "t", "s">> :> <<"e", "l", "e", "m", "e", "n", "t", "s", "_", "e", "l", "e">>)
    \* 'ele': 'elements_ele'
    @@ (<<"e", "l", "e">> :> <<"e", "l", "e", "m", "e", "n", "t", "s", "_", "e", "l", "e">>)
    \* 'weather': 'weather_cli'
    @@ (<<"w", "e", "a", "t", "h", "e", "r">> :> <<"w", "e", "a", "t", "h", "e", "r", "_", "c", "l", "i">>)
    \* 'cli': 'weather_cli'
    @@ (<<"c", "l", "i">> :> <<"w", "e", "a", "t", "h", "e", "r", "_", "c", "l", "i">>)
    \* 'precip': 'precip_pcp'
    @@ (<<"p", "r", "e", "c", "i", "p">> :> <<"p", "r", "e", "c", "i", "p", "_", "p", "c", "p">>)
    \* 'pcp': 'precip_pcp'
    @@ (<<"p", "c", "p">> :> <<"p", "r", "e", "c", "i", "p", "_", "p", "c", "p">>)
    \* 'temperature': 'temperature_tmp'
    @@ (<<"t", "e", "m", "p", "e", "r", "a", "t", "u", "r", "e">> :> <<"t", "e", "m", "p", "e", "r", "a", "t", "u", "r", "e", "_", "t", "m", "p">>)
    \* 'tmp': 'temperature_tmp'
    @@ (<<"t", "m", "p">> :> <<"t", "e", "m", "p", "e", "r", "a", "t", "u", "r", "e", "_", "t", "m", "p">>)
    \* 'wind': 'wind_wnd'
    @@ (<<"w", "i", "n", "d">> :> <<"w", "i", "n", "d", "_", "w", "n", "d">>)
    \* 'wnd': 'wind_wnd'
    @@ (<<"w", "n", "d">> :> <<"w", "i", "n", "d", "_", "w", "n", "d">>)
    \* 'operations': 'operations_ops'
    @@ (<<"o", "p", "e", "r", "a", "t", "i", "o", "n", "s">> :> <<"o", "p", "e", "r", "a", "t", "i", "o", "n", "s", "_", "o", "p", "s">>)
    \* 'ops': 'operations_ops'
    @@ (<<"o", "p", "s">> :> <<"o", "p", "e", "r", "a", "t", "i", "o", "n", "s", "_", "o", "p", "s">>)
    \* 'schedule': 'management_sch'
    @@ (<<"s", "c", "h", "e", "d", "u", "l", "e">> :> <<"m", "a", "n", "a", "g", "e", "m", "e", "n", "t", "_", "s", "c", "h">>)
    \* 'sch': 'management_sch'
    @@ (<<"s", "c", "h">> :> <<"m", "a", "n", "a", "g", "e", "m", "e", "n", "t", "_", "s", "c", "h">>)
    \* 'tillage': 'tillage_til'
    @@ (<<"t", "i", "l", "l", "a", "g", "e">> :> <<"t", "i", "l", "l", "a", "g", "e", "_", "t", "i", "l">>)
    \* 'til': 'tillage_til'
    @@ (<<"t", "i", "l">> :> <<"t", "i", "l", "l", "a", "g", "e", "_", "t", "i", "l">>)
    \* 'fertilizer': 'fertilizer_frt'
    @@ (<<"f", "e", "r", "t", "i", "l", "i", "z", "e", "r">> :> <<"f", "e", "r", "t", "i", "l", "i", "z", "e", "r", "_", "f", "r", "t">>)
    \* 'frt': 'fertilizer_frt'
    @@ (<<"f", "r", "t">> :> <<"f", "e", "r", "t", "i", "l", "i", "z", "e", "r", "_", "f", "r", "t">>)
    \* 'recall': 'recall_rec'
    @@ (<<"r", "e", "c", "a", "l", "l">> :> <<"r", "e", "c", "a", "l", "l", "_", "r", "e", "c">>)
    \* 'rec': 'recall_rec'
    @@ (<<"r", "e", "c">> :> <<"r", "e", "c", "a", "l", "l", "_", "r", "e", "c">>)
    \* 'decision': 'decision_def'
    @@ (<<"d", "e", "c", "i", "s", "i", "o", "n">> :> <<"d", "e", "c", "i", "s", "i", "o", "n", "_", "d", "e", "f">>)
    \* 'def': 'decision_def'
    @@ (<<"d", "e", "f">> :> <<"d", "e", "c", "i", "s", "i", "o", "n", "_", "d", "e", "f">>)
    \* 'basin': 'basin_bsn'
    @@ (<<"b", "a", "s", "i", "n">> :> <<"b", "a", "s", "i", "n", "_", "b", "s", "n">>)

Guess(columnName, table) ==
    [op |-> "guessTargetTable", columnName |-> columnName, table |-> table]

\* a plausible slip: the hover provider guesses no table
hoverGuessTargetTableNothing(columnName) == NoString

\* SwatHoverProvider.guessTargetTable(columnName)
hoverGuessTargetTable(columnName) ==
    IF columnName \in DOMAIN hoverColumnTableMap
    THEN hoverColumnTableMap[columnName]
    ELSE NoString

\* createHover(columnName, value, targetTable, record): the preview of the
\* record, before its formatting
createHover(columnName, value, targetTable, record) ==
    [kind |-> "hover", columnName |-> columnName, value |-> value,
     targetTable |-> targetTable, record |-> record]

\* a plausible slip: the guess by column name is tried before the database's
\* declared foreign key
hoverResolveGuessFirst(sq, fs, dbPath, tableName, columnName, columnValue, log1) ==
    LET targetTable == hoverGuessTargetTable(columnName)
        nCall == findRecordByName(sq, fs, dbPath, targetTable, columnValue)
        rCall == resolveForeignKey(sq, fs, dbPath, tableName, columnName,
                                   columnValue)
    IN  IF targetTable # NoString /\ Truthy(nCall.ret)
        THEN Outcome(createHover(columnName, columnValue, targetTable, nCall.ret),
                     log1 \o <<Guess(columnName, targetTable),
                               HelperCall("findRecordByName", dbPath,
                                          <<targetTable>>, nCall)>>)
        ELSE IF Truthy(rCall.ret)
        THEN Outcome(createHover(columnName, columnValue, rCall.ret.targetTable,
                                 rCall.ret.record),
                     Append(log1, HelperCall("resolveForeignKey", dbPath,
                                             <<tableName, columnName>>, rCall)))
        ELSE Outcome(Undefined, log1)

\* SwatHoverProvider.parseSwatFileLine, from resolveForeignKey on
hoverResolve(sq, fs, dbPath, tableName, columnName, columnValue, log1) ==
    LET rCall == resolveForeignKey(sq, fs, dbPath, tableName, columnName,
                                   columnValue)
        log2 == Append(log1, HelperCall("resolveForeignKey", dbPath,
                                        <<tableName, columnName>>, rCall))
    IN  IF rCall.exc THEN Outcome(Undefined, log2)
        ELSE IF ~Truthy(rCall.ret)
        THEN
          LET targetTable == hoverGuessTargetTable(columnName)
              log3 == Append(log2, Guess(columnName, targetTable))
              nCall == findRecordByName(sq, fs, dbPath, targetTable, columnValue)
              log4 == Append(log3, HelperCall("findRecordByName", dbPath,
                                              <<targetTable>>, nCall))
          IN  IF targetTable = NoString THEN Outcome(Undefined, log3)
              ELSE IF nCall.exc THEN Outcome(Undefined, log4)
              ELSE IF Truthy(nCall.ret)
              THEN Outcome(createHover(columnName, columnValue, targetTable,
                                       nCall.ret), log4)
              ELSE Outcome(Undefined, log4)
        ELSE Outcome(createHover(columnName, columnValue, rCall.ret.targetTable,
                                 rCall.ret.record), log2)

\* SwatHoverProvider.parseSwatFileLine
hoverParseSwatFileLine(sq, fs, document, position, tableName, dbPath) ==
    LET loc == LocateColumn(document, position)
    IN  IF ~loc.found THEN Outcome(Undefined, loc.log)
        ELSE
          LET fkCall == getForeignKeyColumns(sq, fs, dbPath, tableName)
              log1 == Append(loc.log, HelperCall("getForeignKeyColumns", dbPath,
                                                 <<tableName>>, fkCall))
          IN  IF fkCall.exc THEN Outcome(Undefined, log1)
              ELSE IF ~Includes(fkCall.ret.items, loc.columnName)
              THEN Outcome(Undefined, log1)
              ELSE hoverResolve(sq, fs, dbPath, tableName, loc.columnName,
                                loc.columnValue, log1)

\* SwatHoverProvider.provideHover
provideHover(sq, fs, datasetPath, document, position) ==
    IF datasetPath = NoDataset THEN Outcome(Undefined, <<>>)
    ELSE
      LET dbPath == getProjectDbPath(fs, datasetPath)
          tableName == getTableNameForFile(document.fileName)
      IN  IF ~Truthy(dbPath) \/ ~isAvailable(sq) THEN Outcome(Undefined, <<>>)
          ELSE IF tableName = NoString THEN Outcome(Undefined, <<>>)
          ELSE IF ~HasWordRangeAt(document.lines[position.line + 1],
                                  position.character)
          THEN Outcome(Undefined, <<>>)
          ELSE hoverParseSwatFileLine(sq, fs, document, position, tableName,
                                      dbPath)

(***************************************************************************)
(* swatCodeActionProvider.                                                 *)
(***************************************************************************)
\* the code action provider's guessTargetTable: columnTableMap
actionColumnTableMap ==
    \* 'hydro': 'hydrology_hyd'
       (<<"h", "y", "d", "r", "o">> :> <<"h", "y", "d", "r", "o", "l", "o", "g", "y", "_", "h", "y", "d">>)
    \* 'topo': 'topography_hyd'
    @@ (<<"t", "o", "p", "o">> :> <<"t", "o", "p", "o", "g", "r", "a", "p", "h", "y", "_", "h", "y", "d">>)
    \* 'field': 'field_fld'
    @@ (<<"f", "i", "e", "l", "d">> :> <<"f", "i", "e", "l", "d", "_", "f", "l", "d">>)
    \* 'soil': 'soils_sol'
    @@ (<<"s", "o", "i", "l">> :> <<"s", "o", "i", "l", "s", "_", "s", "o", "l">>)
    \* 'lu_mgt': 'landuse_lum'
    @@ (<<"l", "u", "_", "m", "g", "t">> :> <<"l", "a", "n", "d", "u", "s", "e", "_", "l", "u", "m">>)
    \* 'soil_plant_init': 'soil_plant_ini'
    @@ (<<"s", "o", "i", "l", "_", "p", "l", "a", "n", "t", "_", "i", "n", "i", "t">> :> <<"s", "o", "i", "l", "_", "p", "l", "a", "n", "t", "_", "i", "n", "i">>)
    \* 'surf_stor': 'wetland_wet'
    @@ (<<"s", "u", "r", "f", "_", "s", "t", "o", "r">> :> <<"w", "e", "t", "l", "a", "n", "d", "_", "w", "e", "t">>)
    \* 'snow': 'snow_sno'
    @@ (<<"s", "n", "o", "w">> :> <<"s", "n", "o", "w", "_", "s", "n", "o">>)
    \* 'plnt_typ': 'plants_plt'
    @@ (<<"p", "l", "n", "t", "_", "t", "y", "p">> :> <<"p", "l", "a", "n", "t", "s", "_", "p", "l", "t">>)
    \* 'soil_text': 'soils_lte_sol'
    @@ (<<"s", "o", "i", "l", "_", "t", "e", "x", "t">> :> <<"s", "o", "i", "l", "s", "_", "l", "t", "e", "_", "s", "o", "l">>)
    \* 'aquifer': 'aquifer_aqu'
    @@ (<<"a", "q", "u", "i", "f", "e", "r">> :> <<"a", "q", "u", "i", "f", "e", "r", "_", "a", "q", "u">>)
    \* 'aqu': 'aquifer_aqu'
    @@ (<<"a", "q", "u">> :> <<"a", "q", "u", "i", "f", "e", "r", "_", "a", "q", "u">>)

\* a plausible slip: the code action provider guesses no table
actionGuessTargetTableNothing(columnName) == NoString

\* SwatCodeActionProvider.guessTargetTable(columnName)
actionGuessTargetTable(columnName) ==
    IF columnName \in DOMAIN actionColumnTableMap
    THEN actionColumnTableMap[columnName]
    ELSE NoString

\* the 'Open in Database Browser' action
OpenInBrowserAction(targetTable, columnValue) ==
    [title |-> "Open in Database Browser",
     command |-> "swat-dataset-selector.openDatabaseBrowser",
     arguments |-> <<targetTable, columnValue>>]

\* an exception that leaves the provider (it has no try / catch of its own)
Raised == [kind |-> "exception"]

\* SwatCodeActionProvider.provideCodeActions
provideCodeActions(sq, fs, datasetPath, document, position) ==
    IF datasetPath = NoDataset THEN Outcome(Array(<<>>), <<>>)
    ELSE
      LET dbPath == getProjectDbPath(fs, datasetPath)
          tableName == getTableNameForFile(document.fileName)
          loc == LocateColumn(document, position)
          fkCall == getForeignKeyColumns(sq, fs, dbPath, tableName)
          log1 == Append(loc.log, HelperCall("getForeignKeyColumns", dbPath,
                                             <<tableName>>, fkCall))
          rCall == resolveForeignKey(sq, fs, dbPath, tableName, loc.columnName,
                                     loc.columnValue)
          log2 == Append(log1, HelperCall("resolveForeignKey", dbPath,
                                          <<tableName, loc.columnName>>, rCall))
          guessed == actionGuessTargetTable(loc.columnName)
          log3 == Append(log2, Guess(loc.columnName, guessed))
      IN  IF ~Truthy(dbPath) \/ ~isAvailable(sq) THEN Outcome(Array(<<>>), <<>>)
          ELSE IF tableName = NoString THEN Outcome(Array(<<>>), <<>>)
          ELSE IF ~loc.found THEN Outcome(Array(<<>>), loc.log)
          ELSE IF fkCall.exc THEN Outcome(Raised, log1)
          ELSE IF ~Includes(fkCall.ret.items, loc.columnName)
          THEN Outcome(Array(<<>>), log1)
          ELSE IF rCall.exc THEN Outcome(Raised, log2)
          ELSE IF Truthy(rCall.ret)
          THEN Outcome(Array(<<OpenInBrowserAction(rCall.ret.targetTable,
                                                   loc.columnValue)>>), log2)
          ELSE IF guessed # NoString
          THEN Outcome(Array(<<OpenInBrowserAction(guessed, loc.columnValue)>>),
                       log3)
          ELSE Outcome(Array(<<>>), log3)

(***************************************************************************)
(* swatCodeLensProvider.                                                   *)
(***************************************************************************)
\* the code lens provider's getDisplayName: nameMap
codeLensNameMap ==
    \* 'hydro': 'Hydrology'
       (<<"h", "y", "d", "r", "o">> :> <<"H", "y", "d", "r", "o", "l", "o", "g", "y">>)
    \* 'topo': 'Topography'
    @@ (<<"t", "o", "p", "o">> :> <<"T", "o", "p", "o", "g", "r", "a", "p", "h", "y">>)
    \* 'field': 'Field'
    @@ (<<"f", "i", "e", "l", "d">> :> <<"F", "i", "e", "l", "d">>)
    \* 'soil': 'Soil'
    @@ (<<"s", "o", "i", "l">> :> <<"S", "o", "i", "l">>)
    \* 'lu_mgt': 'Land Use'
    @@ (<<"l", "u", "_", "m", "g", "t">> :> <<"L", "a", "n", "d", " ", "U", "s", "e">>)
    \* 'soil_plant_init': 'Soil Plant Init'
    @@ (<<"s", "o", "i", "l", "_", "p", "l", "a", "n", "t", "_", "i", "n", "i", "t">> :> <<"S", "o", "i", "l", " ", "P", "l", "a", "n", "t", " ", "I", "n", "i", "t">>)
    \* 'surf_stor': 'Surface Storage'
    @@ (<<"s", "u", "r", "f", "_", "s", "t", "o", "r">> :> <<"S", "u", "r", "f", "a", "c", "e", " ", "S", "t", "o", "r", "a", "g", "e">>)
    \* 'snow': 'Snow'
    @@ (<<"s", "n", "o", "w">> :> <<"S", "n", "o", "w">>)
    \* 'plnt_typ': 'Plant Type'
    @@ (<<"p", "l", "n", "t", "_", "t", "y", "p">> :> <<"P", "l", "a", "n", "t", " ", "T", "y", "p", "e">>)
    \* 'soil_text': 'Soil Texture'
    @@ (<<"s", "o", "i", "l", "_", "t", "e", "x", "t">> :> <<"S", "o", "i", "l", " ", "T", "e", "x", "t", "u", "r", "e">>)

\* SwatCodeLensProvider.getDisplayName(columnName)
getDisplayName(columnName) ==
    IF columnName \in DOMAIN codeLensNameMap THEN codeLensNameMap[columnName]
    ELSE columnName

\* headerTokens.findIndex(t => t.value === fk), from index i on
RECURSIVE FindIndexFrom(_, _, _)
FindIndexFrom(toks, value, i) ==
    IF i >= Len(toks) THEN -1
    ELSE IF toks[i + 1].value = value THEN i
    ELSE FindIndexFrom(toks, value, i + 1)

IsIndex(idx) == idx # -1

\* foreignKeys.map(fk => headerTokens.findIndex(...)).filter(idx => idx !== -1)
ForeignKeyIndices(foreignKeys, headerTokens) ==
    SelectSeq([k \in 1..Len(foreignKeys) |->
                  FindIndexFrom(headerTokens, foreignKeys[k], 0)], IsIndex)

\* parts.join(sep)
RECURSIVE Join(_, _)
Join(parts, sep) ==
    IF parts = <<>> THEN <<>>
    ELSE IF Len(parts) = 1 THEN Head(parts)
    ELSE Head(parts) \o sep \o Join(Tail(parts), sep)

\* the forEach over foreignKeyIndices: `${displayName}: ${columnValue}` for
\* each index the row reaches, from the k-th index on
RECURSIVE ForeignKeyLinks(_, _, _, _)
ForeignKeyLinks(indices, headerTokens, valueTokens, k) ==
    IF k > Len(indices) THEN <<>>
    ELSE LET colIdx == indices[k]
             rest == ForeignKeyLinks(indices, headerTokens, valueTokens, k + 1)
         IN  IF colIdx < Len(valueTokens) /\ colIdx < Len(headerTokens)
             THEN <<getDisplayName(headerTokens[colIdx + 1].value)
                      \o <<":", " ">> \o valueTokens[colIdx + 1].value>> \o rest
             ELSE rest

\* the link emoji that opens the title, one character of it
LinkEmoji == "@"

ReferencedPrefix == <<LinkEmoji>> \o <<" ", "R", "e", "f", "e", "r", "e", "n", "c", "e", "d", ":", " ">>

\* new vscode.CodeLens(new vscode.Range(lineNum, 0, lineNum, 0), { title, ... })
CodeLens(lineNum, foreignKeyLinks) ==
    [kind |-> "codeLens", line |-> lineNum, character |-> 0,
     title |-> ReferencedPrefix \o Join(foreignKeyLinks, <<" ", "|", " ">>),
     command |-> ""]

\* a plausible slip: the loop does not skip the comment lines
RECURSIVE CodeLensLoopComments(_, _, _, _)
CodeLensLoopComments(docLines, lineNum, indices, headerTokens) ==
    IF lineNum >= Len(docLines) THEN <<>>
    ELSE
      LET trimmed == Trim(docLines[lineNum + 1])
          valueTokens == parseLineTokens(docLines[lineNum + 1])
          foreignKeyLinks == ForeignKeyLinks(indices, headerTokens, valueTokens, 1)
          rest == CodeLensLoopComments(docLines, lineNum + 1, indices,
                                       headerTokens)
      IN  IF Len(trimmed) = 0 THEN rest
          ELSE IF ~(\E k \in 1..Len(indices) : indices[k] < Len(valueTokens))
          THEN rest
          ELSE IF Len(foreignKeyLinks) > 0
          THEN <<CodeLens(lineNum, foreignKeyLinks)>> \o rest
          ELSE rest

\* the for loop over the data lines, from lineNum on
RECURSIVE CodeLensLoop(_, _, _, _)
CodeLensLoop(docLines, lineNum, indices, headerTokens) ==
    IF lineNum >= Len(docLines) THEN <<>>
    ELSE
      LET trimmed == Trim(docLines[lineNum + 1])
          valueTokens == parseLineTokens(docLines[lineNum + 1])
          foreignKeyLinks == ForeignKeyLinks(indices, headerTokens, valueTokens, 1)
          rest == CodeLensLoop(docLines, lineNum + 1, indices, headerTokens)
      IN  IF Len(trimmed) = 0 \/ StartsWithHash(trimmed) THEN rest
          ELSE IF ~(\E k \in 1..Len(indices) : indices[k] < Len(valueTokens))
          THEN rest
          ELSE IF Len(foreignKeyLinks) > 0
          THEN <<CodeLens(lineNum, foreignKeyLinks)>> \o rest
          ELSE rest

\* the lines the loop tokenizes: one parseLineTokens for each
TokenizedLines(docLines, from) ==
    { i \in from..(Len(docLines) - 1) :
        /\ Len(Trim(docLines[i + 1])) > 0
        /\ ~StartsWithHash(Trim(docLines[i + 1])) }

\* SwatCodeLensProvider.provideCodeLenses
provideCodeLenses(sq, fs, datasetPath, document) ==
    IF datasetPath = NoDataset THEN Outcome(Array(<<>>), <<>>)
    ELSE
      LET dbPath == getProjectDbPath(fs, datasetPath)
          tableName == getTableNameForFile(document.fileName)
          fkCall == getForeignKeyColumns(sq, fs, dbPath, tableName)
          log1 == <<HelperCall("getForeignKeyColumns", dbPath, <<tableName>>,
                               fkCall)>>
          headerLineIndexL == findHeaderLine(document.lines, DefaultMaxLinesToCheck)
          log2 == Append(log1, ParserStep("findHeaderLine"))
          headerTokens == parseLineTokens(document.lines[headerLineIndexL + 1])
          log3 == Append(log2, ParserStep("parseLineTokens"))
          foreignKeyIndices == ForeignKeyIndices(fkCall.ret.items, headerTokens)
          tokenized == TokenizedLines(document.lines, headerLineIndexL + 1)
          log4 == log3 \o [k \in 1..Cardinality(tokenized) |->
                              ParserStep("parseLineTokens")]
      IN  IF ~Truthy(dbPath) \/ ~isAvailable(sq) THEN Outcome(Array(<<>>), <<>>)
          ELSE IF tableName = NoString THEN Outcome(Array(<<>>), <<>>)
          ELSE IF fkCall.exc THEN Outcome(Raised, log1)
          ELSE IF Len(fkCall.ret.items) = 0 THEN Outcome(Array(<<>>), log1)
          ELSE IF headerLineIndexL = -1 THEN Outcome(Array(<<>>), log2)
          ELSE IF Len(foreignKeyIndices) = 0 THEN Outcome(Array(<<>>), log3)
          ELSE Outcome(Array(CodeLensLoop(document.lines, headerLineIndexL + 1,
                                          foreignKeyIndices, headerTokens)),
                       log4)


(***************************************************************************)
(* swatHoverProvider: the fields createHover displays of a record.  keys   *)
(* is Object.keys(record), the columns in the order of the table; record   *)
(* maps each of them to its value, null (Null) or a text.                  *)
(***************************************************************************)
MAX_HOVER_FIELDS == 5

DescriptionColumn == <<"d", "e", "s", "c", "r", "i", "p", "t", "i", "o", "n">>

\* const displayFields = ['name', 'description']
DisplayFields == <<NameColumn, DescriptionColumn>>

IsDisplayField(f) == \E k \in 1..Len(DisplayFields) : DisplayFields[k] = f

\* record[field] !== undefined && record[field] !== null
HasValue(record, field) == field \in DOMAIN record /\ record[field] # Null

\* Object.keys(record).filter(k => k !== 'id')
AllFields(keys) == SelectSeq(keys, LAMBDA k : k # IdColumn)

\* the display fields that are shown, in their order
DisplayFieldsShown(record) ==
    SelectSeq(DisplayFields, LAMBDA f : HasValue(record, f))

\* a plausible slip: the other fields get all the slots
RemainingSlotsAll(fieldsShown) == MAX_HOVER_FIELDS

\* const remainingSlots = MAX_HOVER_FIELDS - fieldsShown
RemainingSlots(fieldsShown) == MAX_HOVER_FIELDS - fieldsShown

\* allFields.filter(f => !displayFields.includes(f)).slice(0, remainingSlots)
OtherFields(keys, remainingSlots) ==
    Slice0(SelectSeq(AllFields(keys), LAMBDA f : ~IsDisplayField(f)),
           remainingSlots)

\* the fields createHover appends to the markdown, in order
createHoverFields(keys, record) ==
    LET first == DisplayFieldsShown(record)
        otherFields == OtherFields(keys, RemainingSlots(Len(first)))
    IN  first \o SelectSeq(otherFields, LAMBDA f : HasValue(record, f))

\* allFields.length - fieldsShown, the count of the '...and N more' line
createHoverRemainingFields(keys, record) ==
    Len(AllFields(keys)) - Len(createHoverFields(keys, record))


(***************************************************************************)
(* swatHoverProvider.ts, its own column locator: the values of the line    *)
(* are split off the trimmed line and searched for in the line, one after  *)
(* the other.                                                              *)
(***************************************************************************)
\* s.split(/\s+/): the pieces between the runs of blanks; a string without
\* a blank is its only piece, the empty string included
RECURSIVE SplitOnBlanks(_, _)
SplitOnBlanks(s, piece) ==
    IF s = <<>> THEN <<piece>>
    ELSE IF IsWhitespace(Head(s))
         THEN <<piece>> \o SplitOnBlanks(TrimStart(s), <<>>)
         ELSE SplitOnBlanks(Tail(s), Append(piece, Head(s)))

\* currentLine.trim().split(/\s+/)
InlineValues(currentLine) == SplitOnBlanks(Trim(currentLine), <<>>)

\* s.indexOf(search, from), for 0 <= from: the first offset at or after
\* from where search stands in s, else -1
IndexOf(s, search, from) ==
    LET at == { j \in from..(Len(s) - Len(search)) :
                  SubSeq(s, j + 1, j + Len(search)) = search }
    IN  IF at = {} THEN -1 ELSE CHOOSE j \in at : \A k \in at : j <= k

InlineFound(i, value) == [found |-> TRUE, index |-> i, value |-> value]

\* the loop over the values, from value i on
RECURSIVE InlineLoop(_, _, _, _, _)
InlineLoop(currentLine, values, character, i, charCount) ==
    IF i >= Len(values) THEN [found |-> FALSE]
    ELSE LET valueStart == IndexOf(currentLine, values[i + 1], charCount)
             valueEnd == valueStart + Len(values[i + 1])
         IN  IF character >= valueStart /\ character <= valueEnd
             THEN InlineFound(i, values[i + 1])
             ELSE InlineLoop(currentLine, values, character, i + 1, valueEnd)

\* the column index and value parseSwatFileLine finds under the cursor
hoverInlineLocate(currentLine, character) ==
    InlineLoop(currentLine, InlineValues(currentLine), character, 0, 0)

(***************************************************************************)
(* swatDatabaseBrowserProvider: the one webview panel of the database      *)
(* browser.  A panel is known by its number; panels maps the panels that   *)
(* exist (created and not disposed) to what their webview shows.           *)
(***************************************************************************)
\* what a webview shows: nothing yet, the rows of a table, the page for a
\* table that was not found, or the page for an error
Html(kind, tableName) == [kind |-> kind, table |-> tableName]

BlankHtml == Html("blank", NoString)

\* loadTableData leaves the webview as it is
NoHtml == Html("unchanged", NoString)

\* the try / catch of loadTableData, the panel being there: what it writes
\* to panel.webview.html
loadTableDataHtml(sq, fs, dbPath, tableName, filterRecordName) ==
    LET db == DbAt(fs, dbPath)
    IN  IF ~sq \/ db.state = "missing" THEN Html("error", tableName)
        ELSE IF ~MatchesIdentifier(tableName) THEN NoHtml
        ELSE IF db.state = "corrupt" THEN Html("error", tableName)
        ELSE IF ~(\E k \in 1..Len(db.master) : db.master[k] = tableName)
             THEN Html("notfound", tableName)
        ELSE IF /\ filterRecordName # NoString
                /\ NameColumn \notin TableOf(db, tableName).columns
             THEN Html("error", tableName)
        ELSE Html("table", tableName)

\* loadTableData(tableName, filterRecordName): the panels after it
loadTableData(sq, fs, datasetPath, panelRef, panelMap, tableName, filterRecordName) ==
    IF datasetPath = NoDataset \/ panelRef = NoPanel THEN panelMap
    ELSE LET dbPath == getProjectDbPath(fs, datasetPath)
         IN  IF ~Truthy(dbPath) THEN panelMap
             ELSE LET html == loadTableDataHtml(sq, fs, dbPath, tableName,
                                                filterRecordName)
                  IN  IF html = NoHtml THEN panelMap
                      ELSE [panelMap EXCEPT ![panelRef] = html]

\* how openTable leaves the provider: its panel, the panels that exist,
\* the panels created so far, and whether it revealed or created a panel
Browser(panelRef, panelMap, created, revealed, made) ==
    [panel |-> panelRef, panels |-> panelMap, panelsCreated |-> created,
     revealed |-> revealed, created |-> made]

\* a plausible slip: a panel is created whether or not there is one
CreateOrShowAlwaysCreating(panelRef, panelMap, created) ==
    Browser(created + 1, panelMap @@ ((created + 1) :> BlankHtml),
            created + 1, FALSE, TRUE)

\* if (this.panel) { this.panel.reveal(...) } else { this.panel =
\* vscode.window.createWebviewPanel(...); ... }
CreateOrShow(panelRef, panelMap, created) ==
    IF panelRef # NoPanel
    THEN Browser(panelRef, panelMap, created, TRUE, FALSE)
    ELSE Browser(created + 1, panelMap @@ ((created + 1) :> BlankHtml),
                 created + 1, FALSE, TRUE)

\* the checks openTable makes before it touches the panel
openTableChecks(sq, fs, datasetPath, tableName) ==
    /\ datasetPath # NoDataset
    /\ Truthy(getProjectDbPath(fs, datasetPath))
    /\ isAvailable(sq)
    /\ MatchesIdentifier(tableName)

\* openTable(tableName, filterRecordName)
openTable(sq, fs, datasetPath, panelRef, panelMap, created, tableName, filterRecordName) ==
    IF ~openTableChecks(sq, fs, datasetPath, tableName)
    THEN Browser(panelRef, panelMap, created, FALSE, FALSE)
    ELSE LET shown == CreateOrShow(panelRef, panelMap, created)
         IN  [shown EXCEPT !.panels =
                 loadTableData(sq, fs, datasetPath, shown.panel, shown.panels,
                               tableName, filterRecordName)]

\* the panel's onDidDispose listener, the panel being gone: the panels
\* after it
Disposed(panelRef, panelMap) ==
    IF DOMAIN panelMap \subseteq {panelRef} THEN <<>>
    ELSE [k \in DOMAIN panelMap \ {panelRef} |-> panelMap[k]]

(***************************************************************************)
(* The inputs the model draws from: identifiers, a file system with four   *)
(* dataset directories, and the documents open in the editor.              *)
(***************************************************************************)
HruDataHru == <<"h", "r", "u", "_", "d", "a", "t", "a", "_", "h", "r", "u">>
HydrologyHyd == <<"h", "y", "d", "r", "o", "l", "o", "g", "y", "_", "h", "y", "d">>
TopographyHyd == <<"t", "o", "p", "o", "g", "r", "a", "p", "h", "y", "_", "h", "y", "d">>
FieldFld == <<"f", "i", "e", "l", "d", "_", "f", "l", "d">>
SoilsSol == <<"s", "o", "i", "l", "s", "_", "s", "o", "l">>
OwnersTbl == <<"O", "w", "n", "e", "r", "s", "_", "T", "b", "l">>
BadTargetTable == <<"f", "i", "e", "l", "d", " ", "f", "l", "d">>

HruColumns ==
    { <<"i", "d">>, <<"n", "a", "m", "e">>, <<"h", "y", "d", "r", "o">>, <<"t", "o", "p", "o">>, <<"f", "i", "e", "l", "d">>, <<"s", "o", "i", "l">>,
      <<"s", "n", "o", "w">>, <<"o", "w", "n", "e", "r">>, <<"a", "1">> }

\* a table row: column -> text
HruRow(id, name) ==
    [c \in HruColumns |->
        IF c = <<"i", "d">> THEN id ELSE IF c = <<"n", "a", "m", "e">> THEN name ELSE <<"x">>]

NamedRow(id, name, p) ==
    (<<"i", "d">> :> id) @@ (<<"n", "a", "m", "e">> :> name) @@ (<<"p">> :> p)

NamedColumns == { <<"i", "d">>, <<"n", "a", "m", "e">>, <<"p">> }

ForeignKey(from, table, to) == [from |-> from, table |-> table, to |-> to]

\* hru_data_hru declares: hydro -> hydrology_hyd(name); topo ->
\* topography_hyd (no target column named: the primary key); field -> a
\* table whose name is no identifier; soil -> soils_sol, a table the
\* database does not hold; owner -> Owners_Tbl(name), a table outside the
\* file-name mapping; a1 -> hydrology_hyd, by a column whose name is no
\* identifier.  snow is a column of the table but no foreign key.
FullDatabase ==
    [state |-> "ok",
     master |-> <<OwnersTbl, FieldFld, HruDataHru, HydrologyHyd, TopographyHyd>>,
     tables |->
        (HruDataHru :>
            [columns |-> HruColumns,
             fks |-> << ForeignKey(<<"h", "y", "d", "r", "o">>, HydrologyHyd, <<"n", "a", "m", "e">>),
                        ForeignKey(<<"t", "o", "p", "o">>, TopographyHyd, <<>>),
                        ForeignKey(<<"f", "i", "e", "l", "d">>, BadTargetTable, <<"i", "d">>),
                        ForeignKey(<<"s", "o", "i", "l">>, SoilsSol, <<"n", "a", "m", "e">>),
                        ForeignKey(<<"o", "w", "n", "e", "r">>, OwnersTbl, <<"n", "a", "m", "e">>),
                        ForeignKey(<<"a", "1">>, HydrologyHyd, <<"p", ";">>) >>,
             rows |-> << HruRow(<<"1">>, <<"u", "1">>), HruRow(<<"2">>, <<"u", "2">>) >>])
        @@ (HydrologyHyd :>
            [columns |-> NamedColumns, fks |-> <<>>,
             rows |-> << NamedRow(<<"1">>, <<"h", "1">>, <<"5">>),
                         NamedRow(<<"2">>, <<"h", "2">>, <<"6">>) >>])
        @@ (TopographyHyd :>
            [columns |-> NamedColumns, fks |-> <<>>,
             rows |-> << NamedRow(<<"1">>, <<"t", "1">>, <<"7">>) >>])
        @@ (FieldFld :>
            [columns |-> NamedColumns, fks |-> <<>>,
             rows |-> << NamedRow(<<"1">>, <<"f", "1">>, <<"8">>) >>])
        @@ (ToLowerCase(OwnersTbl) :>
            [columns |-> NamedColumns, fks |-> <<>>,
             rows |-> << NamedRow(<<"1">>, <<"o", "1">>, <<"9">>) >>])]

\* a database whose hru_data_hru declares no foreign key
PlainDatabase ==
    [state |-> "ok",
     master |-> <<HruDataHru, HydrologyHyd>>,
     tables |->
        (HruDataHru :>
            [columns |-> HruColumns, fks |-> <<>>,
             rows |-> << HruRow(<<"1">>, <<"u", "1">>) >>])
        @@ (HydrologyHyd :>
            [columns |-> NamedColumns, fks |-> <<>>,
             rows |-> << NamedRow(<<"1">>, <<"h", "1">>, <<"5">>) >>])]

\* a database for the definition's target: hydro -> hydrology_hyd by its
\* primary key, where one record has a name the file holds, one has no
\* name and one has a name the file does not hold; topo ->
\* topography_hyd(name), whose file the dataset lacks; owner ->
\* Owners_Tbl(name), a table outside the file-name mapping
TargetDatabase ==
    [state |-> "ok",
     master |-> <<OwnersTbl, HruDataHru, HydrologyHyd, TopographyHyd>>,
     tables |->
        (HruDataHru :>
            [columns |-> HruColumns,
             fks |-> << ForeignKey(<<"h", "y", "d", "r", "o">>, HydrologyHyd, <<>>),
                        ForeignKey(<<"t", "o", "p", "o">>, TopographyHyd, <<"n", "a", "m", "e">>),
                        ForeignKey(<<"o", "w", "n", "e", "r">>, OwnersTbl, <<"n", "a", "m", "e">>) >>,
             rows |-> << HruRow(<<"1">>, <<"u", "1">>) >>])
        @@ (HydrologyHyd :>
            [columns |-> NamedColumns, fks |-> <<>>,
             rows |-> << NamedRow(<<"1">>, <<"h", "1">>, <<"5">>),
                         NamedRow(<<"2">>, <<>>, <<"6">>),
                         NamedRow(<<"3">>, <<"h", "3">>, <<"7">>) >>])
        @@ (TopographyHyd :>
            [columns |-> NamedColumns, fks |-> <<>>,
             rows |-> << NamedRow(<<"1">>, <<"t", "1">>, <<"7">>) >>])
        @@ (ToLowerCase(OwnersTbl) :>
            [columns |-> NamedColumns, fks |-> <<>>,
             rows |-> << NamedRow(<<"1">>, <<"o", "1">>, <<"9">>) >>])]

HruDataFile == <<"h", "r", "u", "-", "d", "a", "t", "a", ".", "h", "r", "u">>
HydrologyFile == <<"h", "y", "d", "r", "o", "l", "o", "g", "y", ".", "h", "y", "d">>
TopographyFile == <<"t", "o", "p", "o", "g", "r", "a", "p", "h", "y", ".", "h", "y", "d">>
FieldFile == <<"f", "i", "e", "l", "d", ".", "f", "l", "d">>

HruDataLines ==
    << <<"#", " ", "h", "r", "u">>,
       <<"n", "a", "m", "e", " ", "h", "y", "d", "r", "o", " ", "t", "o", "p", "o", " ", "f", "i", "e", "l", "d", " ", "s", "o", "i", "l", " ", "s", "n", "o", "w", " ", "o", "w", "n", "e", "r">>,
       <<"u", "1", " ", "h", "1", " ", "t", "1", " ", "f", "1", " ", "s", "1", " ", "n", "1", " ", "o", "1">>,
       <<"u", "2", " ", " ", "h", "2", " ", "1">> >>

HydrologyLines == << <<"n", "a", "m", "e", " ", "p">>, <<"h", "2", " ", "6">>, <<"h", "1", " ", "5">> >>

TopographyLines == << <<"n", "a", "m", "e", " ", "p">>, <<>>, <<"t", "1", " ", "7">>, <<"1", " ", "0">> >>

FieldLines == << <<"n", "a", "m", "e", " ", "p">>, <<"f", "1", " ", "8">> >>

\* the document of the target dataset and its hydrology.hyd
TargetHruLines ==
    << <<"#", " ", "t">>,
       <<"n", "a", "m", "e", " ", "h", "y", "d", "r", "o", " ", "t", "o", "p", "o", " ", "o", "w", "n", "e", "r", " ", "s", "n", "o", "w">>,
       <<"u", "1", " ", "1", " ", "t", "1", " ", "o", "1", " ", "n", "1">>,
       <<>>,
       <<"u", "2", " ", "2">>,
       <<"u", "3", " ", "3">>,
       <<"u", "4", " ", "4", " ", "t", "9", " ", "o", "9">>,
       <<"#", " ", "c">>,
       <<"u", "5">> >>

TargetHydrologyLines == << <<"n", "a", "m", "e", " ", "p">>, <<"2", " ", "6">>, <<"h", "1", " ", "5">>, <<"h", "1", " ", "4">> >>

DatasetFiles ==
    (HruDataFile :> HruDataLines) @@ (HydrologyFile :> HydrologyLines)
    @@ (TopographyFile :> TopographyLines) @@ (FieldFile :> FieldLines)

\* the dataset directories: with an imported database, with text files
\* only, with a project.db that is no database, with a database that
\* declares nothing and without the target files, with a database that
\* resolves to records with and without a file, a name and a line
SampleFileSystem ==
    ("/ws/full" :> [db |-> FullDatabase, files |-> DatasetFiles])
    @@ ("/ws/text" :> [db |-> [state |-> "missing"], files |-> DatasetFiles])
    @@ ("/ws/corrupt" :> [db |-> [state |-> "corrupt"], files |-> DatasetFiles])
    @@ ("/ws/plain" :> [db |-> PlainDatabase,
                        files |-> (HruDataFile :> HruDataLines)])
    @@ ("/ws/target" :> [db |-> TargetDatabase,
                         files |-> (HruDataFile :> TargetHruLines)
                                   @@ (HydrologyFile :> TargetHydrologyLines)])

DatasetRoots == DOMAIN SampleFileSystem

\* the documents a request is made on: (file name, lines); among them a
\* file of another case, an unrecognised file, a file of comments only, an
\* empty file and a file whose header comes after the first five lines
SampleDocuments ==
    { [fileName |-> HruDataFile, lines |-> HruDataLines],
      [fileName |-> <<"H", "R", "U", "-", "D", "a", "t", "a", ".", "h", "r", "u">>,
       lines |-> << <<"n", "a", "m", "e", " ", "h", "y", "d", "r", "o">>, <<"u", "1", " ", "h", "1", " ", "t", "1">> >>],
      [fileName |-> <<"n", "o", "t", "e", "s", ".", "h", "r", "u">>,
       lines |-> << <<"n", "a", "m", "e", " ", "h", "y", "d", "r", "o">>, <<"u", "1", " ", "h", "1">> >>],
      [fileName |-> HydrologyFile, lines |-> << <<>>, <<"#">> >>],
      [fileName |-> HruDataFile, lines |-> << <<>> >>],
      [fileName |-> HruDataFile,
       lines |-> << <<"#">>, <<>>, <<"#">>, <<>>, <<"#">>, <<"h", "y", "d", "r", "o">>,
                    <<"h", "1">> >>] }

\* the identifiers handed to the helper: every string over a letter, a
\* digit, an underscore, a semicolon and a space up to MaxIdentLen, and the
\* names the sample database knows
IdentChars == {"a", "1", "_", ";", " "}

TableInputs ==
    SeqsUpTo(IdentChars, MaxIdentLen)
        \cup {HruDataHru, HydrologyHyd, OwnersTbl, SoilsSol, BadTargetTable}

ColumnInputs ==
    SeqsUpTo(IdentChars, MaxIdentLen)
        \cup { <<"h", "y", "d", "r", "o">>, <<"t", "o", "p", "o">>, <<"f", "i", "e", "l", "d">>, <<"s", "o", "i", "l">>, <<"s", "n", "o", "w">> }

ValueInputs == { <<"h", "1">>, <<"1">>, <<"z", "z">> }

(***************************************************************************)
(* The database helper called directly: each step is one call of one of    *)
(* its methods, on any dataset directory and any identifier.               *)
(***************************************************************************)
NoRequest == [op |-> "none"]

InitDb ==
    /\ pc = "start"
    /\ sqlite3 \in BOOLEAN
    /\ fileSystem = SampleFileSystem
    /\ selectedDataset = NoDataset
    /\ recentDatasets = <<>>
    /\ globalState = <<>>
    /\ selectedDatabase = NoDatabase
    /\ storedDatabase = NoDatabase
    /\ request = NoRequest
    /\ result = Undefined
    /\ calls = <<>>
    /\ earlier = NoRequest
    /\ panel = NoPanel
    /\ panels = <<>>
    /\ panelsCreated = 0
    /\ line = <<>>
    /\ charPosition = 0
    /\ tokens = <<>>
    /\ cursorToken = NoToken
    /\ lines = <<>>
    /\ maxLinesToCheck = 0
    /\ headerLineIndex = -1

DbStep(op, dbPath, idents, value, out) ==
    /\ pc' = op
    /\ request' = [op |-> op, dbPath |-> dbPath, idents |-> idents,
                   value |-> value]
    /\ result' = out.ret
    /\ calls' = <<HelperCall(op, dbPath, idents, out)>>
    /\ UNCHANGED <<tokVars, hdrVars, envVars, selVars, histVars, browserVars>>

CallGetForeignKeyColumns ==
    /\ pc = "start"
    /\ \E root \in DatasetRoots, tableName \in TableInputs :
        LET dbPath == PathJoin(root, ProjectDbName)
        IN  DbStep("getForeignKeyColumns", dbPath, <<tableName>>, <<>>,
                   getForeignKeyColumns(sqlite3, fileSystem, dbPath, tableName))

CallResolveForeignKey ==
    /\ pc = "start"
    /\ \E root \in DatasetRoots, sourceTable \in TableInputs,
       sourceColumn \in ColumnInputs, sourceValue \in ValueInputs :
        LET dbPath == PathJoin(root, ProjectDbName)
        IN  DbStep("resolveForeignKey", dbPath, <<sourceTable, sourceColumn>>,
                   sourceValue,
                   resolveForeignKey(sqlite3, fileSystem, dbPath, sourceTable,
                                     sourceColumn, sourceValue))

CallFindRecordByName ==
    /\ pc = "start"
    /\ \E root \in DatasetRoots, tableName \in TableInputs,
       recordName \in ValueInputs :
        LET dbPath == PathJoin(root, ProjectDbName)
        IN  DbStep("findRecordByName", dbPath, <<tableName>>, recordName,
                   findRecordByName(sqlite3, fileSystem, dbPath, tableName,
                                    recordName))

CallTableExists ==
    /\ pc = "start"
    /\ \E root \in DatasetRoots, tableName \in TableInputs :
        LET dbPath == PathJoin(root, ProjectDbName)
        IN  DbStep("tableExists", dbPath, <<tableName>>, <<>>,
                   tableExists(sqlite3, fileSystem, dbPath, tableName))

CallGetAvailableTables ==
    /\ pc = "start"
    /\ \E root \in DatasetRoots :
        LET dbPath == PathJoin(root, ProjectDbName)
        IN  DbStep("getAvailableTables", dbPath, <<>>, <<>>,
                   getAvailableTables(sqlite3, fileSystem, dbPath))

\* the caller takes the value; the helper keeps nothing of the call
HelperReturns ==
    /\ pc \notin {"start"}
    /\ pc' = "start"
    /\ request' = NoRequest
    /\ result' = Undefined
    /\ calls' = <<>>
    /\ UNCHANGED <<tokVars, hdrVars, envVars, selVars, histVars, browserVars>>

NextDb ==
    \/ HelperReturns
    \/ CallGetForeignKeyColumns
    \/ CallResolveForeignKey
    \/ CallFindRecordByName
    \/ CallTableExists
    \/ CallGetAvailableTables

SpecDb == InitDb /\ [][NextDb]_vars

(***************************************************************************)
(* The extension at work: the user selects datasets and removes recent     *)
(* ones, and the editor asks the providers about a position of a document; *)
(* a provider runs to completion on the selection, the file system and the *)
(* database it finds, and the editor then takes its answer.                *)
(***************************************************************************)
ProviderOps == {"provideDefinition", "provideHover", "provideCodeActions"}

\* the four entry points of a resolution request
ResolutionOps == ProviderOps \cup {"provideCodeLenses"}

\* the lists of recent datasets the extension may find stored
StoredRecents == { <<>>, <<"/ws/text", "/ws/full">> }

\* the selected database the extension may find stored
StoredDatabases == {NoDatabase}

\* what the user may hand to the selection: a dataset directory (with a
\* database, without one, with a corrupt one) or nothing
DatasetInputs == {"/ws/full", "/ws/text", "/ws/corrupt", ""}

\* what the user may select for a database: a project.db or nothing
DatabaseInputs == {"/ws/full/project.db", ""}

\* the positions of a document: every offset of every line, the end included
Positions(document) ==
    UNION { { [line |-> ln - 1, character |-> ch] :
                ch \in 0..Len(document.lines[ln]) } :
            ln \in 1..Len(document.lines) }

Init ==
    /\ pc = "idle"
    /\ sqlite3 \in BOOLEAN
    /\ fileSystem = SampleFileSystem
    /\ selectedDataset = NoDataset
    /\ globalState \in StoredRecents
    /\ recentDatasets = globalState
    /\ storedDatabase \in StoredDatabases
    /\ selectedDatabase = storedDatabase
    /\ request = NoRequest
    /\ result = Undefined
    /\ calls = <<>>
    /\ earlier = NoRequest
    /\ panel = NoPanel
    /\ panels = <<>>
    /\ panelsCreated = 0
    /\ line = <<>>
    /\ charPosition = 0
    /\ tokens = <<>>
    /\ cursorToken = NoToken
    /\ lines = <<>>
    /\ maxLinesToCheck = 0
    /\ headerLineIndex = -1

\* SwatDatasetWebviewProvider.setSelectedDataset(dataset)
SetSelectedDataset ==
    /\ pc = "idle"
    /\ \E dataset \in DatasetInputs :
        LET p == normalizeToPath(dataset)
        IN  IF p = ""
            THEN UNCHANGED selVars
            ELSE /\ selectedDataset' = p
                 /\ recentDatasets' =
                        Slice0(<<p>> \o Without(recentDatasets, p),
                               MaxRecentDatasets)
                 /\ globalState' = recentDatasets'
                 /\ UNCHANGED <<selectedDatabase, storedDatabase>>
    /\ UNCHANGED <<pc, tokVars, hdrVars, envVars, reqVars, histVars, browserVars>>

\* SwatDatasetWebviewProvider.setSelectedDatabase(dbPath)
SetSelectedDatabase ==
    /\ pc = "idle"
    /\ \E dbPath \in DatabaseInputs :
        LET p == normalizeToPath(dbPath)
        IN  IF p = ""
            THEN UNCHANGED selVars
            ELSE /\ selectedDatabase' = p
                 /\ storedDatabase' = selectedDatabase'
                 /\ UNCHANGED <<selectedDataset, recentDatasets, globalState>>
    /\ UNCHANGED <<pc, tokVars, hdrVars, envVars, reqVars, histVars, browserVars>>

\* SwatDatasetWebviewProvider.removeRecentDataset(datasetPath)
RemoveRecentDataset ==
    /\ pc = "idle"
    /\ \E datasetPath \in DatasetInputs \ {""} :
        /\ recentDatasets' = Without(recentDatasets, datasetPath)
        /\ globalState' = recentDatasets'
    /\ UNCHANGED <<pc, selectedDataset, selectedDatabase, storedDatabase, tokVars,
                   hdrVars, envVars, reqVars, histVars, browserVars>>

\* a plausible slip: answering a request records its dataset as the
\* selected database
AnswerSelecting(op, document, position, out) ==
    /\ pc' = op
    /\ request' = [op |-> op, dataset |-> selectedDataset,
                   document |-> document, position |-> position]
    /\ result' = out.ret
    /\ calls' = out.log
    /\ selectedDatabase' = selectedDataset
    /\ UNCHANGED <<tokVars, hdrVars, envVars, selectedDataset, recentDatasets,
                   globalState, storedDatabase, histVars, browserVars>>

Answer(op, document, position, out) ==
    /\ pc' = op
    /\ request' = [op |-> op, dataset |-> selectedDataset,
                   document |-> document, position |-> position]
    /\ result' = out.ret
    /\ calls' = out.log
    /\ UNCHANGED <<tokVars, hdrVars, envVars, selVars, histVars, browserVars>>

ProvideDefinition ==
    /\ pc = "idle"
    /\ \E document \in SampleDocuments :
        \E position \in Positions(document) :
            Answer("provideDefinition", document, position,
                      provideDefinition(sqlite3, fileSystem, selectedDataset,
                                        document, position))

ProvideHover ==
    /\ pc = "idle"
    /\ \E document \in SampleDocuments :
        \E position \in Positions(document) :
            Answer("provideHover", document, position,
                      provideHover(sqlite3, fileSystem, selectedDataset,
                                   document, position))

ProvideCodeActions ==
    /\ pc = "idle"
    /\ \E document \in SampleDocuments :
        \E position \in Positions(document) :
            Answer("provideCodeActions", document, position,
                      provideCodeActions(sqlite3, fileSystem, selectedDataset,
                                         document, position))

ProvideCodeLenses ==
    /\ pc = "idle"
    /\ \E document \in SampleDocuments :
        LET out == provideCodeLenses(sqlite3, fileSystem, selectedDataset,
                                     document)
        IN  /\ pc' = "provideCodeLenses"
            /\ request' = [op |-> "provideCodeLenses",
                           dataset |-> selectedDataset, document |-> document]
            /\ result' = out.ret
            /\ calls' = out.log
            /\ UNCHANGED <<tokVars, hdrVars, envVars, selVars, histVars, browserVars>>

\* the editor takes the answer
Deliver ==
    /\ pc \in ResolutionOps
    /\ pc' = "idle"
    /\ request' = NoRequest
    /\ result' = Undefined
    /\ calls' = <<>>
    /\ UNCHANGED <<tokVars, hdrVars, envVars, selVars, histVars, browserVars>>

Next ==
    \/ SetSelectedDataset
    \/ SetSelectedDatabase
    \/ RemoveRecentDataset
    \/ ProvideDefinition
    \/ ProvideHover
    \/ ProvideCodeActions
    \/ ProvideCodeLenses
    \/ Deliver

Spec == Init /\ [][Next]_vars

(***************************************************************************)
(* The fallback file scan on its own: a candidate file (missing,           *)
(* unreadable, or any few lines of a dataset file) and a name are drawn    *)
(* at the start, and one step scans the file for the name.                 *)
(***************************************************************************)
MaxScanLines == 3

ScanRoot == "/ws/scan"

ScanFile == <<"h", "y", "d", "r", "o", "l", "o", "g", "y", ".", "h", "y", "d">>

ScanPath == PathJoin(ScanRoot, ScanFile)

\* header, data, comment and blank lines; lines that differ from a record
\* name by case, by a prefix, by leading blanks or by a leading zero
ScanLineInputs ==
    { <<"n", "a", "m", "e", " ", "p">>, <<"h", "1", " ", "5">>, <<" ", " ", "h", "1", " ", "6">>, <<"H", "1", " ", "7">>, <<"h", "1", "0", " ", "8">>,
      <<"0", "1", " ", "9">>, <<"#", " ", "h", "1">>, <<"#", "h", "1", " ", "2">>, <<>>, <<" ", " ">> }

ScanNameInputs ==
    { <<"h", "1">>, <<"n", "a", "m", "e">>, <<"h">>, <<"1">>, <<"#", "h", "1">>, <<"#">>, <<"H", "1">> }

\* the dataset directory with the one candidate file
ScanDirectory(fileLines, readable) ==
    ScanRoot :> [db |-> [state |-> "missing"],
                 files |-> (ScanFile :> fileLines),
                 unreadable |-> IF readable THEN {} ELSE {ScanFile}]

\* the dataset directory without the candidate file
ScanDirectoryEmpty ==
    ScanRoot :> [db |-> [state |-> "missing"], files |-> <<>>]

ScanFileSystems ==
    { ScanDirectory(fileLines, TRUE) :
          fileLines \in SeqsUpTo(ScanLineInputs, MaxScanLines) }
    \cup { ScanDirectory(<<<<"h", "1", " ", "5">>>>, FALSE), ScanDirectoryEmpty }

InitScan ==
    /\ pc = "start"
    /\ sqlite3 = TRUE
    /\ fileSystem \in ScanFileSystems
    /\ selectedDataset = NoDataset
    /\ recentDatasets = <<>>
    /\ globalState = <<>>
    /\ selectedDatabase = NoDatabase
    /\ storedDatabase = NoDatabase
    /\ request \in { [op |-> "findRecordLineInFile", file |-> ScanPath,
                      name |-> name] : name \in ScanNameInputs }
    /\ result = Undefined
    /\ calls = <<>>
    /\ earlier = NoRequest
    /\ panel = NoPanel
    /\ panels = <<>>
    /\ panelsCreated = 0
    /\ line = <<>>
    /\ charPosition = 0
    /\ tokens = <<>>
    /\ cursorToken = NoToken
    /\ lines = <<>>
    /\ maxLinesToCheck = 0
    /\ headerLineIndex = -1

\* findRecordLineInFile(request.file, request.name)
ScanForRecord ==
    /\ pc = "start"
    /\ pc' = "findRecordLineInFile"
    /\ result' = findRecordLineInFile(fileSystem, request.file, request.name)
    /\ UNCHANGED <<tokVars, hdrVars, envVars, selVars, request, calls, histVars, browserVars>>

NextScan == ScanForRecord

SpecScan == InitScan /\ [][NextScan]_vars


(***************************************************************************)
(* The file-name / table-name lookups on their own: one lookup of a name   *)
(* in either direction.                                                    *)
(***************************************************************************)
\* the upper-case spelling of a name
UpperCased(s) ==
    [k \in 1..Len(s) |->
        IF s[k] \in LowerCaseLetters
        THEN CHOOSE u \in UpperCaseLetters : UpperToLower[u] = s[k]
        ELSE s[k]]

\* a name with its first character in upper case
Capitalised(s) == [k \in 1..Len(s) |-> IF k = 1 THEN UpperCased(s)[k] ELSE s[k]]

Spellings(s) == {s, UpperCased(s), Capitalised(s)}

\* file names: every spelling of the keys of fileToTableMap, what
\* getFileNameForTable makes of an unmapped table, and unmapped names
FileNameInputs ==
    UNION {Spellings(f) : f \in DOMAIN fileToTableMap}
        \cup {<<"h", "r", "u", "_", "d", "a", "t", "a", "_", "h", "r", "u", ".", "t", "x", "t">>, <<"n", "o", "t", "e", "s", ".", "h", "r", "u">>, <<"h", "r", "u", "-", "d", "a", "t", "a">>, <<>>}

\* table names: every spelling of the keys of tableToFileMap, and unmapped
\* names
TableNameInputs ==
    UNION {Spellings(t) : t \in DOMAIN tableToFileMap}
        \cup {<<"o", "w", "n", "e", "r", "s", "_", "t", "b", "l">>, <<"h", "r", "u", "-", "d", "a", "t", "a", ".", "h", "r", "u">>, <<"h", "r", "u", "_", "d", "a", "t", "a">>, <<>>}

InitMap ==
    /\ pc = "start"
    /\ sqlite3 = TRUE
    /\ fileSystem = ScanDirectoryEmpty
    /\ selectedDataset = NoDataset
    /\ recentDatasets = <<>>
    /\ globalState = <<>>
    /\ selectedDatabase = NoDatabase
    /\ storedDatabase = NoDatabase
    /\ request \in { [op |-> "lookup", name |-> name] :
                        name \in FileNameInputs \cup TableNameInputs }
    /\ result = Undefined
    /\ calls = <<>>
    /\ earlier = NoRequest
    /\ panel = NoPanel
    /\ panels = <<>>
    /\ panelsCreated = 0
    /\ line = <<>>
    /\ charPosition = 0
    /\ tokens = <<>>
    /\ cursorToken = NoToken
    /\ lines = <<>>
    /\ maxLinesToCheck = 0
    /\ headerLineIndex = -1

\* getTableNameForFile(request.name)
LookupTableNameForFile ==
    /\ pc = "start"
    /\ pc' = "getTableNameForFile"
    /\ result' = getTableNameForFile(request.name)
    /\ UNCHANGED <<tokVars, hdrVars, envVars, selVars, request, calls, histVars, browserVars>>

\* getFileNameForTable(request.name)
LookupFileNameForTable ==
    /\ pc = "start"
    /\ pc' = "getFileNameForTable"
    /\ result' = getFileNameForTable(request.name)
    /\ UNCHANGED <<tokVars, hdrVars, envVars, selVars, request, calls, histVars, browserVars>>

NextMap ==
    \/ LookupTableNameForFile
    \/ LookupFileNameForTable

SpecMap == InitMap /\ [][NextMap]_vars


(***************************************************************************)
(* A session of definition and hover requests with the selection changing  *)
(* under them.  A request is split where it reads the selected dataset:    *)
(* BeginRequest is the call of getSelectedDataset() that opens the         *)
(* provider, FinishDefinition / FinishHover the rest of it.  The providers *)
(* await nothing, so the editor runs each of them in one piece; the split  *)
(* lets a selection fall between the two halves, which is more than the    *)
(* editor's single thread does and covers a provider that would yield.     *)
(* result is the answer the editor took last; earlier is one request of    *)
(* the past, with its answer, remembered at any time.                      *)
(***************************************************************************)
SessionOps == {"provideDefinition", "provideHover"}

\* a dataset with a database and one with the same files and no database
SessionDatasets == {"/ws/full", "/ws/text"}

\* a document of hru-data.hru: a declared foreign key the database resolves
\* (hydro) and one it does not (topo)
SessionDocument ==
    [fileName |-> HruDataFile,
     lines |-> << <<"n", "a", "m", "e", " ", "h", "y", "d", "r", "o", " ", "t", "o", "p", "o">>, <<"u", "1", " ", "h", "1", " ", "t", "1">> >>]

\* the positions of the document's data line
SessionPositions ==
    { [line |-> 1, character |-> ch] :
        ch \in 0..Len(SessionDocument.lines[2]) }

InitSession ==
    /\ pc = "idle"
    /\ sqlite3 = TRUE
    /\ fileSystem = SampleFileSystem
    /\ selectedDataset = NoDataset
    /\ globalState = <<>>
    /\ recentDatasets = globalState
    /\ storedDatabase = NoDatabase
    /\ selectedDatabase = storedDatabase
    /\ request = NoRequest
    /\ result = Undefined
    /\ calls = <<>>
    /\ earlier = NoRequest
    /\ panel = NoPanel
    /\ panels = <<>>
    /\ panelsCreated = 0
    /\ line = <<>>
    /\ charPosition = 0
    /\ tokens = <<>>
    /\ cursorToken = NoToken
    /\ lines = <<>>
    /\ maxLinesToCheck = 0
    /\ headerLineIndex = -1

\* SwatDatasetWebviewProvider.setSelectedDataset(dataset), at any moment
SelectDuringSession ==
    /\ \E dataset \in SessionDatasets :
        LET p == normalizeToPath(dataset)
        IN  /\ selectedDataset' = p
            /\ recentDatasets' =
                   Slice0(<<p>> \o Without(recentDatasets, p),
                          MaxRecentDatasets)
            /\ globalState' = recentDatasets'
            /\ UNCHANGED <<selectedDatabase, storedDatabase>>
    /\ UNCHANGED <<pc, tokVars, hdrVars, envVars, reqVars, histVars, browserVars>>

\* const datasetPath = this.getSelectedDataset();
BeginRequest ==
    /\ pc = "idle"
    /\ \E op \in SessionOps, position \in SessionPositions :
        request' = [op |-> op, dataset |-> selectedDataset,
                    document |-> SessionDocument, position |-> position]
    /\ pc' = "started"
    /\ calls' = <<>>
    /\ UNCHANGED <<tokVars, hdrVars, envVars, selVars, result, histVars, browserVars>>

\* a plausible slip: an answer of nothing leaves the previous answer in place
ServeKeeping(out) ==
    /\ pc' = request.op
    /\ result' = IF out.ret = Undefined THEN result ELSE out.ret
    /\ calls' = out.log
    /\ UNCHANGED <<tokVars, hdrVars, envVars, selVars, request, histVars, browserVars>>

\* the provider returns its answer
Serve(out) ==
    /\ pc' = request.op
    /\ result' = out.ret
    /\ calls' = out.log
    /\ UNCHANGED <<tokVars, hdrVars, envVars, selVars, request, histVars, browserVars>>

\* provideDefinition from the dataset path it read
FinishDefinition ==
    /\ pc = "started"
    /\ request.op = "provideDefinition"
    /\ Serve(provideDefinition(sqlite3, fileSystem, request.dataset,
                               request.document, request.position))

\* provideHover from the dataset path it read
FinishHover ==
    /\ pc = "started"
    /\ request.op = "provideHover"
    /\ Serve(provideHover(sqlite3, fileSystem, request.dataset,
                          request.document, request.position))

\* the editor has taken the answer; the request may be remembered
Settle ==
    /\ pc \in SessionOps
    /\ pc' = "idle"
    /\ request' = NoRequest
    /\ calls' = <<>>
    /\ \/ earlier' = [request |-> request, result |-> result]
       \/ UNCHANGED earlier
    /\ UNCHANGED <<tokVars, hdrVars, envVars, selVars, result, browserVars>>

NextSession ==
    \/ SelectDuringSession
    \/ BeginRequest
    \/ FinishDefinition
    \/ FinishHover
    \/ Settle

SpecSession == InitSession /\ [][NextSession]_vars


(***************************************************************************)
(* The selection on its own, on a list of recent datasets that can be      *)
(* full: the extension starts on a stored list, the user selects and       *)
(* removes datasets, and a definition request runs on the selection.       *)
(* request holds the operation performed last.                             *)
(***************************************************************************)
\* a stored list of MaxRecentDatasets entries
FullRecents ==
    <<"/d1", "/d2", "/d3", "/d4", "/d5", "/d6", "/d7", "/d8", "/d9",
      "/ws/text">>

\* the lists the extension may find stored: those it writes, which hold
\* distinct non-empty paths, MaxRecentDatasets at most
RecentsStored == { <<>>, <<"/ws/full", "/d1">>, FullRecents }

\* what the commands hand to setSelectedDataset
RecentsSelectInputs == {"/ws/full", "/ws/text", "/d9", "/d5", ""}

\* what the webview hands to removeRecentDataset: a non-empty string
RecentsRemoveInputs == {"/ws/full", "/d1", "/d9", "/d0"}

\* the constructor's restore of the stored list:
\* raw.map(item => normalizeToPath(item)).filter(Boolean)
RestoreRecents(raw) ==
    SelectSeq([k \in 1..Len(raw) |-> normalizeToPath(raw[k])],
              LAMBDA p : p # "")

InitRecents ==
    /\ pc = "idle"
    /\ sqlite3 = TRUE
    /\ fileSystem = SampleFileSystem
    /\ selectedDataset = NoDataset
    /\ globalState \in RecentsStored
    /\ recentDatasets = RestoreRecents(globalState)
    /\ storedDatabase \in {NoDatabase, "/ws/full/project.db"}
    /\ selectedDatabase = storedDatabase
    /\ request = NoRequest
    /\ result = Undefined
    /\ calls = <<>>
    /\ earlier = NoRequest
    /\ panel = NoPanel
    /\ panels = <<>>
    /\ panelsCreated = 0
    /\ line = <<>>
    /\ charPosition = 0
    /\ tokens = <<>>
    /\ cursorToken = NoToken
    /\ lines = <<>>
    /\ maxLinesToCheck = 0
    /\ headerLineIndex = -1

\* a plausible slip: the new entry is put in front of the unfiltered list
setSelectedDatasetUnfiltered(dataset) ==
    LET p == normalizeToPath(dataset)
    IN  IF p = ""
        THEN UNCHANGED selVars
        ELSE /\ selectedDataset' = p
             /\ recentDatasets' =
                    Slice0(<<p>> \o recentDatasets, MaxRecentDatasets)
             /\ globalState' = recentDatasets'
             /\ UNCHANGED <<selectedDatabase, storedDatabase>>

\* a plausible slip: the new entry is put behind the others
setSelectedDatasetAtEnd(dataset) ==
    LET p == normalizeToPath(dataset)
    IN  IF p = ""
        THEN UNCHANGED selVars
        ELSE /\ selectedDataset' = p
             /\ recentDatasets' =
                    Slice0(Without(recentDatasets, p) \o <<p>>,
                           MaxRecentDatasets)
             /\ globalState' = recentDatasets'
             /\ UNCHANGED <<selectedDatabase, storedDatabase>>

\* SwatDatasetWebviewProvider.setSelectedDataset(dataset)
setSelectedDataset(dataset) ==
    LET p == normalizeToPath(dataset)
    IN  IF p = ""
        THEN UNCHANGED selVars
        ELSE /\ selectedDataset' = p
             /\ recentDatasets' =
                    Slice0(<<p>> \o Without(recentDatasets, p),
                           MaxRecentDatasets)
             /\ globalState' = recentDatasets'
             /\ UNCHANGED <<selectedDatabase, storedDatabase>>

\* a plausible slip: removing the selected dataset also unselects it
removeRecentDatasetUnselecting(datasetPath) ==
    /\ recentDatasets' = Without(recentDatasets, datasetPath)
    /\ globalState' = recentDatasets'
    /\ selectedDataset' =
          IF selectedDataset = datasetPath THEN NoDataset ELSE selectedDataset
    /\ UNCHANGED <<selectedDatabase, storedDatabase>>

\* SwatDatasetWebviewProvider.removeRecentDataset(datasetPath)
removeRecentDataset(datasetPath) ==
    /\ recentDatasets' = Without(recentDatasets, datasetPath)
    /\ globalState' = recentDatasets'
    /\ UNCHANGED <<selectedDataset, selectedDatabase, storedDatabase>>

\* the command or webview message that selects a dataset
RecentsSelect ==
    /\ \E dataset \in RecentsSelectInputs :
        /\ setSelectedDataset(dataset)
        /\ request' = [op |-> "setSelectedDataset", dataset |-> dataset]
    /\ pc' = "setSelectedDataset"
    /\ result' = Undefined
    /\ calls' = <<>>
    /\ UNCHANGED <<tokVars, hdrVars, envVars, histVars, browserVars>>

\* the webview message that removes a recent dataset
RecentsRemove ==
    /\ \E datasetPath \in RecentsRemoveInputs :
        /\ removeRecentDataset(datasetPath)
        /\ request' = [op |-> "removeRecentDataset", dataset |-> datasetPath]
    /\ pc' = "removeRecentDataset"
    /\ result' = Undefined
    /\ calls' = <<>>
    /\ UNCHANGED <<tokVars, hdrVars, envVars, histVars, browserVars>>

\* go to definition on the h1 of the session's document
RecentsResolve ==
    /\ pc # "provideDefinition"
    /\ LET position == [line |-> 1, character |-> 3]
           out == provideDefinition(sqlite3, fileSystem, selectedDataset,
                                    SessionDocument, position)
       IN  /\ request' = [op |-> "provideDefinition",
                          dataset |-> selectedDataset,
                          document |-> SessionDocument,
                          position |-> position]
           /\ result' = out.ret
           /\ calls' = out.log
    /\ pc' = "provideDefinition"
    /\ UNCHANGED <<tokVars, hdrVars, envVars, selVars, histVars, browserVars>>

NextRecents ==
    \/ RecentsSelect
    \/ RecentsRemove
    \/ RecentsResolve

SpecRecents == InitRecents /\ [][NextRecents]_vars


(***************************************************************************)
(* createHover on its own: the fields shown of one record.                 *)
(***************************************************************************)
\* the columns a record is made of
HoverColumnPool ==
    << IdColumn, <<"p">>, NameColumn, <<"q">>, <<"r">>, DescriptionColumn,
       <<"s">>, <<"t">> >>

Reverse(s) == [k \in 1..Len(s) |-> s[Len(s) + 1 - k]]

\* the columns of a table: any of the pool, in the pool's order or in the
\* reverse of it
HoverKeyInputs ==
    UNION { { SelectSeq(order, LAMBDA c : c \in chosen) :
                order \in {HoverColumnPool, Reverse(HoverColumnPool)} } :
            chosen \in SUBSET {HoverColumnPool[k] :
                                  k \in 1..Len(HoverColumnPool)} }

\* the columns that may hold null
HoverNullable == {NameColumn, DescriptionColumn, <<"p">>, <<"q">>}

Text(s) == [kind |-> "text", text |-> s]

\* the records of given columns: a text in every column, or null in some
HoverRecords(keys) ==
    { [c \in {keys[k] : k \in 1..Len(keys)} |->
          IF c \in nulls THEN Null ELSE Text(c)] :
      nulls \in SUBSET (HoverNullable \cap {keys[k] : k \in 1..Len(keys)}) }

InitHover ==
    /\ pc = "start"
    /\ sqlite3 = TRUE
    /\ fileSystem = SampleFileSystem
    /\ selectedDataset = NoDataset
    /\ recentDatasets = <<>>
    /\ globalState = <<>>
    /\ selectedDatabase = NoDatabase
    /\ storedDatabase = NoDatabase
    /\ \E keys \in HoverKeyInputs :
          request \in { [op |-> "createHover", keys |-> keys, record |-> record] :
                          record \in HoverRecords(keys) }
    /\ result = Undefined
    /\ calls = <<>>
    /\ earlier = NoRequest
    /\ panel = NoPanel
    /\ panels = <<>>
    /\ panelsCreated = 0
    /\ line = <<>>
    /\ charPosition = 0
    /\ tokens = <<>>
    /\ cursorToken = NoToken
    /\ lines = <<>>
    /\ maxLinesToCheck = 0
    /\ headerLineIndex = -1

\* createHover(columnName, value, targetTable, request.record)
CreateHover ==
    /\ pc = "start"
    /\ pc' = "createHover"
    /\ result' = [kind |-> "fields",
                  shown |-> createHoverFields(request.keys, request.record),
                  more |-> createHoverRemainingFields(request.keys,
                                                      request.record)]
    /\ UNCHANGED <<tokVars, hdrVars, envVars, selVars, request, calls, histVars, browserVars>>

NextHover == CreateHover

SpecHover == InitHover /\ [][NextHover]_vars


(***************************************************************************)
(* The providers on the target dataset and its neighbours: the extension   *)
(* starts with a dataset selected and the editor asks for the definition   *)
(* or the code actions at a position of the dataset's hru-data.hru, or for *)
(* its code lenses.                                                        *)
(***************************************************************************)
TargetDocument == [fileName |-> HruDataFile, lines |-> TargetHruLines]

TargetDatasets == {"/ws/target", "/ws/full", "/ws/text", "/ws/plain"}

InitTarget ==
    /\ pc = "idle"
    /\ sqlite3 \in BOOLEAN
    /\ fileSystem = SampleFileSystem
    /\ selectedDataset \in TargetDatasets
    /\ recentDatasets = <<selectedDataset>>
    /\ globalState = recentDatasets
    /\ selectedDatabase = NoDatabase
    /\ storedDatabase = NoDatabase
    /\ request = NoRequest
    /\ result = Undefined
    /\ calls = <<>>
    /\ earlier = NoRequest
    /\ panel = NoPanel
    /\ panels = <<>>
    /\ panelsCreated = 0
    /\ line = <<>>
    /\ charPosition = 0
    /\ tokens = <<>>
    /\ cursorToken = NoToken
    /\ lines = <<>>
    /\ maxLinesToCheck = 0
    /\ headerLineIndex = -1

\* provideDefinition(document, position)
TargetDefinition ==
    /\ pc = "idle"
    /\ \E position \in Positions(TargetDocument) :
          Answer("provideDefinition", TargetDocument, position,
                 provideDefinition(sqlite3, fileSystem, selectedDataset,
                                   TargetDocument, position))

\* provideCodeActions(document, range), range.start the position
TargetCodeActions ==
    /\ pc = "idle"
    /\ \E position \in Positions(TargetDocument) :
          Answer("provideCodeActions", TargetDocument, position,
                 provideCodeActions(sqlite3, fileSystem, selectedDataset,
                                    TargetDocument, position))

\* provideCodeLenses(document), on the document and on its lines from the
\* header on
TargetCodeLenses ==
    /\ pc = "idle"
    /\ \E document \in {TargetDocument,
                         [fileName |-> HruDataFile,
                          lines |-> Tail(TargetHruLines)],
                         [fileName |-> HruDataFile,
                          lines |-> << <<"n", "a", "m", "e", " ", "s", "n", "o", "w">>, <<"u", "1", " ", "n", "1">> >>]} :
        LET out == provideCodeLenses(sqlite3, fileSystem, selectedDataset,
                                     document)
        IN  /\ pc' = "provideCodeLenses"
            /\ request' = [op |-> "provideCodeLenses",
                           dataset |-> selectedDataset, document |-> document]
            /\ result' = out.ret
            /\ calls' = out.log
            /\ UNCHANGED <<tokVars, hdrVars, envVars, selVars, histVars, browserVars>>

NextTarget ==
    \/ TargetDefinition
    \/ TargetCodeActions
    \/ TargetCodeLenses

SpecTarget == InitTarget /\ [][NextTarget]_vars

(***************************************************************************)
(* The database browser: datasets are selected, tables are opened by the   *)
(* commands, the panel's webview posts its messages, and the user closes   *)
(* the panel.  A message posted before the panel was closed may still      *)
(* arrive after it.  request holds the operation performed last.           *)
(***************************************************************************)
\* how many panels are created in a run
MaxPanels == 3

BrowserDatasets == {"/ws/full", "/ws/text", "/ws/corrupt"}

\* a table of the database, a table it does not hold, a name that is no
\* identifier
BrowserTables == {HruDataHru, SoilsSol, BadTargetTable}

\* filterRecordName: left out, or a record's name
BrowserRecords == {NoString, <<"u", "1">>}

InitBrowser ==
    /\ pc = "idle"
    /\ sqlite3 \in BOOLEAN
    /\ fileSystem = SampleFileSystem
    /\ selectedDataset = NoDataset
    /\ globalState = <<>>
    /\ recentDatasets = <<>>
    /\ storedDatabase = NoDatabase
    /\ selectedDatabase = NoDatabase
    /\ request = NoRequest
    /\ result = Undefined
    /\ calls = <<>>
    /\ earlier = NoRequest
    /\ panel = NoPanel
    /\ panels = <<>>
    /\ panelsCreated = 0
    /\ line = <<>>
    /\ charPosition = 0
    /\ tokens = <<>>
    /\ cursorToken = NoToken
    /\ lines = <<>>
    /\ maxLinesToCheck = 0
    /\ headerLineIndex = -1

\* the command or webview message that selects a dataset
BrowserSelect ==
    /\ \E dataset \in BrowserDatasets :
        /\ setSelectedDataset(dataset)
        /\ request' = [op |-> "setSelectedDataset", dataset |-> dataset]
    /\ pc' = "setSelectedDataset"
    /\ result' = Undefined
    /\ calls' = <<>>
    /\ UNCHANGED <<tokVars, hdrVars, envVars, histVars, browserVars>>

\* a call of openTable, made for op
OpenTableFor(op, tableName, filterRecordName) ==
    LET out == openTable(sqlite3, fileSystem, selectedDataset, panel, panels,
                         panelsCreated, tableName, filterRecordName)
    IN  /\ out.panelsCreated <= MaxPanels
        /\ panel' = out.panel
        /\ panels' = out.panels
        /\ panelsCreated' = out.panelsCreated
        /\ request' = [op |-> op, tableName |-> tableName,
                       filterRecordName |-> filterRecordName]
        /\ result' = [kind |-> "browser", revealed |-> out.revealed,
                      created |-> out.created]
        /\ pc' = op
        /\ calls' = <<>>
        /\ UNCHANGED <<tokVars, hdrVars, envVars, selVars, histVars>>

\* the commands swat-dataset-selector.openDatabaseBrowser and
\* openHruDataBrowser
OpenTable ==
    \E tableName \in BrowserTables, filterRecordName \in BrowserRecords :
        OpenTableFor("openTable", tableName, filterRecordName)

\* the webview's message { type: 'openReference', tableName, recordName }
OpenReference ==
    /\ panelsCreated > 0
    /\ \E tableName \in BrowserTables, recordName \in BrowserRecords :
        OpenTableFor("openReference", tableName, recordName)

\* the webview's message { type: 'loadTable', tableName, filterRecordName }
LoadTable ==
    /\ panelsCreated > 0
    /\ \E tableName \in BrowserTables, filterRecordName \in BrowserRecords :
        /\ panels' = loadTableData(sqlite3, fileSystem, selectedDataset, panel,
                                   panels, tableName, filterRecordName)
        /\ request' = [op |-> "loadTable", tableName |-> tableName,
                       filterRecordName |-> filterRecordName]
    /\ pc' = "loadTable"
    /\ result' = Undefined
    /\ calls' = <<>>
    /\ UNCHANGED <<tokVars, hdrVars, envVars, selVars, histVars, panel,
                   panelsCreated>>

\* the user closes the panel: it is gone and onDidDispose runs
DisposePanel ==
    /\ panel # NoPanel
    /\ panels' = Disposed(panel, panels)
    /\ panel' = NoPanel
    /\ request' = [op |-> "dispose"]
    /\ pc' = "dispose"
    /\ result' = Undefined
    /\ calls' = <<>>
    /\ UNCHANGED <<tokVars, hdrVars, envVars, selVars, histVars, panelsCreated>>

NextBrowser ==
    \/ BrowserSelect
    \/ OpenTable
    \/ OpenReference
    \/ LoadTable
    \/ DisposePanel

SpecBrowser == InitBrowser /\ [][NextBrowser]_vars

(***************************************************************************)
(* The tokenizer on every line: the inputs are drawn at the start, one     *)
(* step tokenizes the line and the next resolves the cursor offset.        *)
(***************************************************************************)
\* the rest of the state, which the parser functions neither read nor write
NothingElse ==
    /\ sqlite3 = TRUE
    /\ fileSystem = SampleFileSystem
    /\ selectedDataset = NoDataset
    /\ recentDatasets = <<>>
    /\ globalState = <<>>
    /\ selectedDatabase = NoDatabase
    /\ storedDatabase = NoDatabase
    /\ request = NoRequest
    /\ result = Undefined
    /\ calls = <<>>
    /\ earlier = NoRequest
    /\ panel = NoPanel
    /\ panels = <<>>
    /\ panelsCreated = 0

TokChars == {" ", "\t", "a", "b"}

TokLines == SeqsUpTo(TokChars, MaxLineLen)

InitTok ==
    /\ pc = "start"
    /\ line \in TokLines
    /\ charPosition \in 0..(MaxLineLen + 1)
    /\ tokens = <<>>
    /\ cursorToken = NoToken
    /\ lines = <<>>
    /\ maxLinesToCheck = 0
    /\ headerLineIndex = -1
    /\ NothingElse

ParseLine ==
    /\ pc = "start"
    /\ tokens' = parseLineTokens(line)
    /\ pc' = "parsed"
    /\ UNCHANGED <<line, charPosition, cursorToken, hdrVars, envVars, selVars,
                   reqVars, histVars, browserVars>>

FindToken ==
    /\ pc = "parsed"
    /\ cursorToken' = findTokenAtPosition(tokens, charPosition)
    /\ pc' = "found"
    /\ UNCHANGED <<line, charPosition, tokens, hdrVars, envVars, selVars, reqVars, histVars, browserVars>>

NextTok == ParseLine \/ FindToken

SpecTok == InitTok /\ [][NextTok]_vars

(***************************************************************************)
(* findHeaderLine on every small file.                                     *)
(***************************************************************************)
HeaderSampleLines ==
    { <<>>, <<" ">>, <<"#">>, <<"\t", "#", "a">>, <<"a">>, <<" ", "a", " ">>,
      <<"a", "#">> }

InitHdr ==
    /\ pc = "start"
    /\ lines \in SeqsUpTo(HeaderSampleLines, MaxDocLines)
    /\ maxLinesToCheck \in 0..MaxWindow
    /\ headerLineIndex = -1
    /\ line = <<>>
    /\ charPosition = 0
    /\ tokens = <<>>
    /\ cursorToken = NoToken
    /\ NothingElse

FindHeader ==
    /\ pc = "start"
    /\ headerLineIndex' = findHeaderLine(lines, maxLinesToCheck)
    /\ pc' = "header"
    /\ UNCHANGED <<lines, maxLinesToCheck, tokVars, envVars, selVars, reqVars, histVars, browserVars>>

NextHdr == FindHeader

SpecHdr == InitHdr /\ [][NextHdr]_vars


(***************************************************************************)
(* The two column locators on every line: the tokenizer's, in its two      *)
(* steps, and then the hover provider's own.                               *)
(***************************************************************************)
InitInline == InitTok

\* the loop of swatHoverProvider.ts on the line and the offset
InlineLocate ==
    /\ pc = "found"
    /\ pc' = "inline"
    /\ result' = hoverInlineLocate(line, charPosition)
    /\ UNCHANGED <<tokVars, hdrVars, envVars, selVars, request, calls, histVars, browserVars>>

NextInline == ParseLine \/ FindToken \/ InlineLocate

SpecInline == InitInline /\ [][NextInline]_vars

(***************************************************************************)
(* Properties of the tokenizer and the position resolver.                  *)
(***************************************************************************)
\* the offset lies on a blank of the line, or past the line's end
OffBlankOrPastEnd(ln, p) == p >= Len(ln) \/ IsWhitespace(ln[p + 1])

\* C7: findTokenAtPosition(tokens, p) returns token t, with its list index,
\* exactly when t.start <= p < t.end; at p = t.end it never returns t; and
\* for p on a blank or past the end of the line it returns not-found.
PositionResolutionBoundary ==
    pc = "found" =>
        /\ \A i \in 1..Len(tokens) :
              /\ (cursorToken = FoundToken(tokens[i], i - 1))
                    <=> (tokens[i].start <= charPosition
                            /\ charPosition < tokens[i].end)
              /\ charPosition = tokens[i].end =>
                    ~(cursorToken.found /\ cursorToken.index = i - 1)
        /\ OffBlankOrPastEnd(line, charPosition) => cursorToken = NoToken
        /\ cursorToken.found =>
              /\ cursorToken.index \in 0..(Len(tokens) - 1)
              /\ cursorToken.token = tokens[cursorToken.index + 1]

\* the cursor is one past the last character of the first token, a second
\* token follows, and the resolver has answered not-found
PositionResolutionBoundaryWitness ==
    /\ pc = "found"
    /\ Len(tokens) = 2
    /\ charPosition = tokens[1].end
    /\ tokens[1].end - tokens[1].start >= 2
    /\ cursorToken = NoToken

\* C8: every token of parseLineTokens(line) has 0 <= start < end <=
\* line.length, value = line[start:end] with no blank in it, and consecutive
\* tokens satisfy end(i) < start(i+1).
TokenInvariant ==
    pc \in {"parsed", "found"} =>
        \A i \in 1..Len(tokens) :
            /\ 0 <= tokens[i].start
            /\ tokens[i].start < tokens[i].end
            /\ tokens[i].end <= Len(line)
            /\ tokens[i].value = SubSeq(line, tokens[i].start + 1, tokens[i].end)
            /\ \A k \in 1..Len(tokens[i].value) :
                    ~IsWhitespace(tokens[i].value[k])
            /\ i < Len(tokens) => tokens[i].end < tokens[i + 1].start

\* a line with leading blanks, two tokens more than one blank apart, the
\* second ending the line
TokenInvariantWitness ==
    /\ pc = "parsed"
    /\ Len(tokens) = 2
    /\ tokens[1].start > 0
    /\ tokens[2].start > tokens[1].end + 1
    /\ tokens[2].end = Len(line)

\* the token values in order, joined by one space
RECURSIVE JoinValues(_)
JoinValues(toks) ==
    IF toks = <<>> THEN <<>>
    ELSE IF Len(toks) = 1 THEN toks[1].value
    ELSE toks[1].value \o <<" ">> \o JoinValues(Tail(toks))

\* s with every run of blanks replaced by one space
RECURSIVE CollapseBlanks(_)
CollapseBlanks(s) ==
    IF s = <<>> THEN <<>>
    ELSE IF IsWhitespace(Head(s))
         THEN <<" ">> \o CollapseBlanks(TrimStart(Tail(s)))
         ELSE <<Head(s)>> \o CollapseBlanks(Tail(s))

\* C9: the token values of parseLineTokens(line), joined by a single space,
\* equal the line with leading and trailing blanks removed and every run of
\* blanks collapsed to one space; a line with no non-blank character yields
\* no token.
TokenRoundTrip ==
    pc \in {"parsed", "found"} =>
        /\ JoinValues(tokens) = CollapseBlanks(Trim(line))
        /\ (\A k \in 1..Len(line) : IsWhitespace(line[k])) => tokens = <<>>

\* a line whose blanks the round trip has to drop and to collapse: it starts
\* with a blank, holds a tab, and its last token ends the line
TokenRoundTripWitness ==
    /\ pc = "parsed"
    /\ Len(tokens) = 2
    /\ IsWhitespace(line[1])
    /\ \E k \in 1..Len(line) : line[k] = "\t"
    /\ Len(JoinValues(tokens)) + 2 <= Len(line)
    /\ ~IsWhitespace(line[Len(line)])

\* a line whose first non-blank character exists and is not '#'
Qualifies(s) ==
    \E k \in 1..Len(s) :
        /\ ~IsWhitespace(s[k])
        /\ s[k] # "#"
        /\ \A j \in 1..(k - 1) : IsWhitespace(s[j])

\* the qualifying indices inside the window of the first n lines
QualifyingInWindow(ls, n) ==
    {i \in 0..(Len(ls) - 1) : i < n /\ Qualifies(ls[i + 1])}

\* C10: findHeaderLine(lines, N) is the smallest index i < min(N,
\* lines.length) whose trimmed line is non-empty and does not start with
\* '#', and -1 when the window holds none, whatever lies at index >= N.
HeaderLineIsFirstQualifying ==
    pc = "header" =>
        LET Q == QualifyingInWindow(lines, maxLinesToCheck)
        IN  IF Q = {} THEN headerLineIndex = -1
            ELSE /\ headerLineIndex \in Q
                 /\ \A j \in Q : headerLineIndex <= j

\* a file whose only qualifying line lies at or past the window: not-found
HeaderLineIsFirstQualifyingWitness ==
    /\ pc = "header"
    /\ maxLinesToCheck >= 2
    /\ headerLineIndex = -1
    /\ \E i \in maxLinesToCheck..(Len(lines) - 1) : Qualifies(lines[i + 1])

(***************************************************************************)
(* Properties of the database helper.                                      *)
(***************************************************************************)
\* ^[A-Za-z][A-Za-z0-9_]*$
ConformsToPattern(s) ==
    /\ s # <<>>
    /\ Head(s) \in LowerCaseLetters \cup UpperCaseLetters
    /\ \A k \in 2..Len(s) :
          \/ s[k] \in LowerCaseLetters
          \/ s[k] \in UpperCaseLetters
          \/ s[k] \in Digits
          \/ s[k] = "_"

\* the methods that take a table or a column name
IdentifierOps ==
    {"getForeignKeyColumns", "resolveForeignKey", "findRecordByName",
     "tableExists"}

\* a method's empty / not-found value
EmptyOf(op) ==
    CASE op \in {"getForeignKeyColumns", "getAvailableTables"} -> Array(<<>>)
      [] op = "tableExists" -> Boolean(FALSE)
      [] OTHER -> Null

\* C5: for every table or column name that does not match
\* ^[A-Za-z][A-Za-z0-9_]*$, getForeignKeyColumns, resolveForeignKey,
\* findRecordByName and tableExists return their empty / not-found value
\* and hand no statement to prepare (no connection is even opened).
IdentifierValidation ==
    \A k \in 1..Len(calls) :
        (/\ calls[k].op \in IdentifierOps
         /\ \E j \in 1..Len(calls[k].idents) :
                ~ConformsToPattern(calls[k].idents[j]))
        => /\ calls[k].out.ret = EmptyOf(calls[k].op)
           /\ calls[k].out.prepared = <<>>
           /\ calls[k].out.opened = 0

\* resolveForeignKey on the imported database, with the engine loaded, for
\* the table hru_data_hru and the column "a;": nothing prepared, not-found
IdentifierValidationWitness ==
    /\ pc = "resolveForeignKey"
    /\ sqlite3
    /\ request.dbPath.dir = "/ws/full"
    /\ request.idents = <<HruDataHru, <<"a", ";">> >>
    /\ calls[1].out.prepared = <<>>
    /\ result = Null

\* the call's query raises an error in the sample databases: a SELECT on a
\* table the database does not hold
QueryRaises(c) ==
    /\ DbAt(fileSystem, c.dbPath).state = "ok"
    /\ \/ /\ c.op = "findRecordByName"
          /\ ConformsToPattern(c.idents[1])
          /\ ~HasTable(DbAt(fileSystem, c.dbPath), c.idents[1])
       \/ /\ c.op = "resolveForeignKey"
          /\ c.dbPath.dir = "/ws/full"
          /\ c.idents = <<HruDataHru, <<"s", "o", "i", "l">>>>

\* C6: getForeignKeyColumns, resolveForeignKey, findRecordByName,
\* tableExists and getAvailableTables never let an exception reach their
\* caller, and return their empty / not-found value when the sqlite engine
\* is absent, the database file is missing, or a query raises an error.
DatabaseFailureDegrades ==
    \A k \in 1..Len(calls) :
        /\ ~calls[k].out.exc
        /\ (\/ ~sqlite3
            \/ DbAt(fileSystem, calls[k].dbPath).state \in {"missing", "corrupt"}
            \/ QueryRaises(calls[k]))
           => calls[k].out.ret = EmptyOf(calls[k].op)

\* resolveForeignKey for hru_data_hru.soil: the SELECT on the missing table
\* soils_sol was handed to prepare and raised, and the method returned null
DatabaseFailureDegradesWitness ==
    /\ pc = "resolveForeignKey"
    /\ sqlite3
    /\ QueryRaises(calls[1])
    /\ Len(calls[1].out.prepared) = 2
    /\ calls[1].out.closed < calls[1].out.opened
    /\ result = Null


\* C16, connection lifecycle: every connection a helper operation opens is
\* closed before the operation returns, on every path, and an operation
\* opens at most one.
ConnectionLifecycle ==
    \A k \in 1..Len(calls) :
        calls[k].op \in HelperOps =>
            /\ calls[k].out.opened <= 1
            /\ calls[k].out.closed = calls[k].out.opened

\* the foreign key resolveForeignKey finds declared for the call's column:
\* the first of the table's list whose 'from' is the column
DeclaredForeignKeyOf(c) ==
    LET foreignKeys == TableOf(DbAt(fileSystem, c.dbPath), c.idents[1]).fks
        k == CHOOSE k \in 1..Len(foreignKeys) :
                /\ foreignKeys[k].from = c.idents[2]
                /\ \A j \in 1..(k - 1) : foreignKeys[j].from # c.idents[2]
    IN  foreignKeys[k]

\* the call reaches a declared foreign key
ReachesDeclaredForeignKey(c) ==
    /\ c.op = "resolveForeignKey"
    /\ sqlite3
    /\ DbAt(fileSystem, c.dbPath).state = "ok"
    /\ ConformsToPattern(c.idents[1])
    /\ ConformsToPattern(c.idents[2])
    /\ HasTable(DbAt(fileSystem, c.dbPath), c.idents[1])
    /\ \E k \in 1..Len(TableOf(DbAt(fileSystem, c.dbPath), c.idents[1]).fks) :
          TableOf(DbAt(fileSystem, c.dbPath), c.idents[1]).fks[k].from = c.idents[2]

\* the target column of a declaration: 'id' when it names none
TargetColumnOf(fk) == IF fk.to = <<>> THEN <<"i", "d">> ELSE fk.to

\* C20, target identifiers are validated before use: when the declared
\* foreign key's target table, or its target column ('id' when none is
\* named), does not match ^[A-Za-z][A-Za-z0-9_]*$, resolveForeignKey
\* returns not-found, prepares no SELECT (the PRAGMA is all it prepared)
\* and has closed its connection.
TargetIdentifierValidation ==
    \A k \in 1..Len(calls) :
        (/\ ReachesDeclaredForeignKey(calls[k])
         /\ \/ ~ConformsToPattern(DeclaredForeignKeyOf(calls[k]).table)
            \/ ~ConformsToPattern(TargetColumnOf(DeclaredForeignKeyOf(calls[k]))))
        => /\ calls[k].out.ret = Null
           /\ \A j \in 1..Len(calls[k].out.prepared) :
                 calls[k].out.prepared[j].sql = "PRAGMA foreign_key_list(${0})"
           /\ calls[k].out.opened = 1
           /\ calls[k].out.closed = 1

\* resolveForeignKey for hru_data_hru.a1, whose declared target column is
\* 'p;' in a table the database holds
TargetIdentifierValidationWitness ==
    /\ pc = "resolveForeignKey"
    /\ ReachesDeclaredForeignKey(calls[1])
    /\ ConformsToPattern(DeclaredForeignKeyOf(calls[1]).table)
    /\ ~ConformsToPattern(TargetColumnOf(DeclaredForeignKeyOf(calls[1])))
    /\ Len(calls[1].out.prepared) = 1
    /\ result = Null

(***************************************************************************)
(* The providers' answers.  A request in hand is described from what it    *)
(* was made on: the dataset selected, the document and the position.       *)
(***************************************************************************)
RequestDbPath == PathJoin(request.dataset, ProjectDbName)

\* project.db exists in the selected dataset and the SQLite library loaded
DatabaseAvailable ==
    /\ request.dataset # NoDataset
    /\ fileSystem[request.dataset].db.state # "missing"
    /\ sqlite3

RequestTable == getTableNameForFile(request.document.fileName)

RequestLine == request.document.lines[request.position.line + 1]

\* the column and the value under the cursor
CursorColumn == LocateColumn(request.document, request.position)

\* the request is on a value of a recognised file (for the definition and
\* the hover, on a word of the editor)
OnValue ==
    /\ request.dataset # NoDataset
    /\ RequestTable # NoString
    /\ pc \in {"provideDefinition", "provideHover"}
          => HasWordRangeAt(RequestLine, request.position.character)
    /\ CursorColumn.found

DeclaredForeignKeys ==
    getForeignKeyColumns(sqlite3, fileSystem, RequestDbPath, RequestTable).ret.items

CursorIsForeignKey ==
    \E k \in 1..Len(DeclaredForeignKeys) :
        DeclaredForeignKeys[k] = CursorColumn.columnName

CursorResolution ==
    resolveForeignKey(sqlite3, fileSystem, RequestDbPath, RequestTable,
                      CursorColumn.columnName, CursorColumn.columnValue).ret

NoCallOf(ops) == \A k \in 1..Len(calls) : calls[k].op \notin ops

NotFound ==
    IF pc = "provideCodeActions" THEN result = Array(<<>>)
    ELSE result = Undefined

\* the lines of a dataset file that hold the record called name
RecordLines(filePath, name) ==
    LET fileLines == fileSystem[filePath.dir].files[filePath.name]
    IN  { i \in 0..(Len(fileLines) - 1) :
            /\ Len(Trim(fileLines[i + 1])) > 0
            /\ ~StartsWithHash(Trim(fileLines[i + 1]))
            /\ Len(parseLineTokens(fileLines[i + 1])) > 0
            /\ parseLineTokens(fileLines[i + 1])[1].value = name }

\* the file the definition provider guesses for the cursor's column
GuessedFile == PathJoin(request.dataset, columnFileMap[CursorColumn.columnName])

\* C1, fallback activation: a definition request on a value of a recognised
\* file, in a selected dataset without a usable database, whose column has a
\* guessed file holding a record of that name, answers with a location on
\* such a line of the guessed file.
FallbackActivation ==
    ( /\ pc = "provideDefinition"
      /\ OnValue
      /\ ~DatabaseAvailable
      /\ CursorColumn.columnName \in DOMAIN columnFileMap
      /\ ExistsSync(fileSystem, GuessedFile)
      /\ RecordLines(GuessedFile, CursorColumn.columnValue) # {} )
    => /\ result.kind = "location"
       /\ result.file = GuessedFile
       /\ result.line \in RecordLines(GuessedFile, CursorColumn.columnValue)

\* the database resolves the cursor's declared foreign key to a row
ResolvedByDatabase ==
    /\ pc \in ProviderOps
    /\ OnValue
    /\ DatabaseAvailable
    /\ CursorIsForeignKey
    /\ Truthy(CursorResolution)

FallbackOps ==
    {"guessTargetTable", "findRecordByName", "findByNameInFiles"}

\* C2, resolution precedence: when the database is available, declares the
\* cursor's column a foreign key and resolveForeignKey finds a row, the
\* answer is made of that row of the database and its target table (the
\* hover previews it, the code action opens its table, the definition
\* points into its file or nowhere), and no fallback is consulted.
ResolutionPrecedence ==
    ResolvedByDatabase =>
        LET found == CursorResolution
            rows == TableOf(fileSystem[request.dataset].db, found.targetTable).rows
        IN  /\ NoCallOf(FallbackOps)
            /\ \E k \in 1..Len(rows) : rows[k] = found.record.fields
            /\ pc = "provideHover" =>
                  result = createHover(CursorColumn.columnName,
                                       CursorColumn.columnValue,
                                       found.targetTable, found.record)
            /\ pc = "provideCodeActions" =>
                  result = Array(<<OpenInBrowserAction(found.targetTable,
                                       CursorColumn.columnValue)>>)
            /\ pc = "provideDefinition" =>
                  \/ result = Undefined
                  \/ /\ result.kind = "location"
                     /\ result.file = PathJoin(request.dataset, found.fileName)

ResolutionPrecedenceWitness ==
    /\ ResolvedByDatabase
    /\ pc = "provideHover"
    /\ CursorColumn.columnName \in DOMAIN hoverColumnTableMap
    /\ result.kind = "hover"

\* the cursor's column is not among the declared foreign keys
NotAForeignKey ==
    /\ pc \in ProviderOps
    /\ OnValue
    /\ DatabaseAvailable
    /\ ~CursorIsForeignKey

\* C3, foreign-key gate: a column that getForeignKeyColumns does not list
\* gets the not-found answer from the definition, the hover and the code
\* action, without a call of resolveForeignKey and without any fallback,
\* whatever the providers' guess maps hold for its name.
ForeignKeyGate ==
    NotAForeignKey =>
        /\ NotFound
        /\ NoCallOf(FallbackOps \cup {"resolveForeignKey", "findRecordLineInFile"})

ForeignKeyGateWitness ==
    /\ NotAForeignKey
    /\ pc = "provideDefinition"
    /\ CursorColumn.columnName \in DOMAIN columnFileMap
    /\ CursorColumn.columnName \in DOMAIN hoverColumnTableMap
    /\ ExistsSync(fileSystem, GuessedFile)
    /\ RecordLines(GuessedFile, CursorColumn.columnValue) # {}

\* the database is available and declares the column, and resolveForeignKey
\* yields no row, under the definition or the hover
FallbackReached ==
    /\ pc \in {"provideDefinition", "provideHover"}
    /\ OnValue
    /\ DatabaseAvailable
    /\ CursorIsForeignKey
    /\ ~Truthy(CursorResolution)

FileScanOps == {"findByNameInFiles", "findRecordLineInFile"}

Scanned == pc = "findRecordLineInFile"

\* the candidate file can be read
ScanReadable ==
    /\ request.file.name \in DOMAIN fileSystem[request.file.dir].files
    /\ request.file.name \notin fileSystem[request.file.dir].unreadable

ScannedLines == fileSystem[request.file.dir].files[request.file.name]

\* the characters of a string up to its first blank
RECURSIVE UpToBlank(_)
UpToBlank(s) ==
    IF s = <<>> \/ IsWhitespace(Head(s)) THEN <<>>
    ELSE <<Head(s)>> \o UpToBlank(Tail(s))

\* the first whitespace-delimited token of a line
FirstWord(s) == UpToBlank(TrimStart(s))

IsBlankLine(s) == TrimStart(s) = <<>>

IsCommentLine(s) == ~IsBlankLine(s) /\ Head(TrimStart(s)) = "#"

\* the indices of the lines the scan reads as records called name: neither
\* blank nor a '#' comment, and the first token is exactly name
MatchingLines(fileLines, name) ==
    { i \in 0..(Len(fileLines) - 1) :
        /\ ~IsBlankLine(fileLines[i + 1])
        /\ ~IsCommentLine(fileLines[i + 1])
        /\ FirstWord(fileLines[i + 1]) = name }

\* the indices of all the lines whose first token is exactly name
TokenMatchingLines(fileLines, name) ==
    { i \in 0..(Len(fileLines) - 1) : FirstWord(fileLines[i + 1]) = name }

\* C11 as stated, first match wins: findRecordLineInFile returns the
\* smallest index of a line whose first whitespace-delimited token is
\* exactly the name, and -1 when the file is missing, cannot be read, or
\* holds no such line.
FirstMatchWinsAsStated ==
    Scanned =>
        IF ScanReadable /\ TokenMatchingLines(ScannedLines, request.name) # {}
        THEN /\ result \in TokenMatchingLines(ScannedLines, request.name)
             /\ \A i \in TokenMatchingLines(ScannedLines, request.name) :
                   result <= i
        ELSE result = -1

\* C11, first match wins among the lines read: findRecordLineInFile returns
\* the smallest index of a line, neither blank nor a '#' comment, whose
\* first whitespace-delimited token is exactly the name, case and all, and
\* -1 when the file is missing, cannot be read, or holds no such line.
FirstMatchWins ==
    Scanned =>
        IF ScanReadable /\ MatchingLines(ScannedLines, request.name) # {}
        THEN /\ result \in MatchingLines(ScannedLines, request.name)
             /\ \A i \in MatchingLines(ScannedLines, request.name) : result <= i
        ELSE result = -1

\* a second match, after lines that differ by case or share a prefix, is
\* passed over for the first
FirstMatchWinsWitness ==
    /\ Scanned
    /\ ScanReadable
    /\ result >= 1
    /\ Cardinality(MatchingLines(ScannedLines, request.name)) >= 2

\* the file's header line: its first line that is neither blank nor a comment
IsHeaderLineOf(fileLines, i) ==
    /\ i \in 0..(Len(fileLines) - 1)
    /\ ~IsBlankLine(fileLines[i + 1])
    /\ ~IsCommentLine(fileLines[i + 1])
    /\ \A j \in 0..(i - 1) :
          IsBlankLine(fileLines[j + 1]) \/ IsCommentLine(fileLines[j + 1])

\* C12, the scan skips the header: findRecordLineInFile never returns the
\* index of the file's header line, nor of a blank or a comment line.
ScanSkipsHeader ==
    (Scanned /\ ScanReadable /\ result # -1) =>
        /\ ~IsHeaderLineOf(ScannedLines, result)
        /\ ~IsBlankLine(ScannedLines[result + 1])
        /\ ~IsCommentLine(ScannedLines[result + 1])

(***************************************************************************)
(* Requests on malformed or unrecognised input, and what a request may     *)
(* change.                                                                 *)
(***************************************************************************)
\* the offsets at which a word of the line starts
WordStarts(s) ==
    { j \in 0..(Len(s) - 1) :
        /\ ~IsWhitespace(s[j + 1])
        /\ j = 0 \/ IsWhitespace(s[j]) }

\* the offset is on a character of a word
OnToken(s, c) == c < Len(s) /\ ~IsWhitespace(s[c + 1])

\* the index of the word the offset is on
TokenIndexAt(s, c) == Cardinality({ j \in WordStarts(s) : j <= c }) - 1

\* the first lines of the document, where a header is looked for
HeaderWindow(docLines) == 0..(Min(DefaultMaxLinesToCheck, Len(docLines)) - 1)

HeaderCandidates(docLines) ==
    { i \in HeaderWindow(docLines) :
        ~IsBlankLine(docLines[i + 1]) /\ ~IsCommentLine(docLines[i + 1]) }

\* the document's header line, when it has one
HeaderOf(docLines) ==
    docLines[(CHOOSE i \in HeaderCandidates(docLines) :
                  \A j \in HeaderCandidates(docLines) : i <= j) + 1]

\* no header in the first lines (an empty document among them), the cursor
\* off every token, or on a token past the header's columns
Malformed ==
    \/ HeaderCandidates(request.document.lines) = {}
    \/ ~OnToken(RequestLine, request.position.character)
    \/ TokenIndexAt(RequestLine, request.position.character)
          >= Cardinality(WordStarts(HeaderOf(request.document.lines)))

\* C13, malformed input degrades to not-found: a request on a document
\* without a header in its first lines, on an empty document, off every
\* token or on a token past the header's columns ends in not-found, raising
\* nothing and without a call of resolveForeignKey.
MalformedInputNotFound ==
    (pc \in ProviderOps /\ Malformed) =>
        /\ NotFound
        /\ NoCallOf({"resolveForeignKey"} \cup FallbackOps)

\* a ragged row under a usable database: the cursor is on a token past the
\* header's last column, and the parser was reached
MalformedInputNotFoundWitness ==
    /\ pc \in ProviderOps
    /\ DatabaseAvailable
    /\ RequestTable # NoString
    /\ HeaderCandidates(request.document.lines) # {}
    /\ OnToken(RequestLine, request.position.character)
    /\ TokenIndexAt(RequestLine, request.position.character)
          >= Cardinality(WordStarts(HeaderOf(request.document.lines)))
    /\ calls # <<>>

\* the document's base name is no key of the file -> table mapping
UnrecognisedFile ==
    ToLowerCase(request.document.fileName) \notin DOMAIN fileToTableMap

\* the empty answer of each entry point
EmptyAnswer ==
    IF pc \in {"provideCodeActions", "provideCodeLenses"}
    THEN result = Array(<<>>)
    ELSE result = Undefined

\* C14, input validation comes first: with no dataset selected, or on a file
\* whose base name the file -> table mapping does not know, the definition,
\* the hover, the code lens and the code action return their empty answer
\* before tokenizing the document and before any query to the database.
InputValidationFirst ==
    (pc \in ResolutionOps /\ (request.dataset = NoDataset \/ UnrecognisedFile))
        => EmptyAnswer /\ calls = <<>>

\* an unknown file under a usable database, whose text has a header and rows
InputValidationFirstWitness ==
    /\ pc = "provideCodeLenses"
    /\ DatabaseAvailable
    /\ UnrecognisedFile
    /\ HeaderCandidates(request.document.lines) # {}

\* C17, requests are read-only: a step that serves a definition, hover,
\* code-lens or code-action request leaves the selected dataset, the recent
\* datasets (in memory and stored), the selected database (in memory and
\* stored), the databases and the dataset files as they were.
RequestsAreReadOnly ==
    [][pc' \in ResolutionOps =>
          /\ selectedDataset' = selectedDataset
          /\ recentDatasets' = recentDatasets
          /\ globalState' = globalState
          /\ selectedDatabase' = selectedDatabase
          /\ storedDatabase' = storedDatabase
          /\ fileSystem' = fileSystem
          /\ sqlite3' = sqlite3]_vars

\* a request answered from the database, with a dataset, recent datasets and
\* a database selected
RequestsAreReadOnlyWitness ==
    /\ pc = "provideHover"
    /\ result.kind = "hover"
    /\ Len(recentDatasets) >= 2
    /\ selectedDatabase # NoDatabase


(***************************************************************************)
(* The file-name / table-name mapping                                      *)
(***************************************************************************)
\* a map sends no two keys to one value
Injective(map) ==
    \A a, b \in DOMAIN map : map[a] = map[b] => a = b

\* the two maps hold the same number of pairs and are injective
MapsPairUp ==
    /\ Cardinality(DOMAIN fileToTableMap) = Cardinality(DOMAIN tableToFileMap)
    /\ Injective(fileToTableMap)
    /\ Injective(tableToFileMap)

\* C19 as stated: every file name getTableNameForFile recognizes comes back
\* from getFileNameForTable of its table, every table of tableToFileMap
\* comes back from getTableNameForFile of its file, and the two maps have
\* the same number of pairs and are injective.
MappingRoundTripAsStated ==
    /\ MapsPairUp
    /\ (pc = "getTableNameForFile" /\ result # NoString)
          => getFileNameForTable(result) = request.name
    /\ (pc = "getFileNameForTable" /\ request.name \in DOMAIN tableToFileMap)
          => getTableNameForFile(result) = request.name

\* C19: the round trip returns the lower-case spelling of the name, which is
\* the name itself for the keys of the two maps: a recognized file name
\* comes back from getFileNameForTable of its table in lower case, a table
\* getFileNameForTable finds in its map comes back from getTableNameForFile
\* of its file in lower case, and the two maps have the same number of
\* pairs and are injective.
MappingRoundTrip ==
    /\ MapsPairUp
    /\ (pc = "getTableNameForFile" /\ result # NoString)
          => /\ getFileNameForTable(result) = ToLowerCase(request.name)
             /\ request.name \in DOMAIN fileToTableMap
                    => getFileNameForTable(result) = request.name
    /\ (pc = "getFileNameForTable"
            /\ ToLowerCase(request.name) \in DOMAIN tableToFileMap)
          => /\ getTableNameForFile(result) = ToLowerCase(request.name)
             /\ request.name \in DOMAIN tableToFileMap
                    => getTableNameForFile(result) = request.name

\* a recognized file name in another spelling than the map's key
MappingRoundTripWitness ==
    /\ pc = "getTableNameForFile"
    /\ result # NoString
    /\ request.name \notin DOMAIN fileToTableMap
    /\ getFileNameForTable(result) = ToLowerCase(request.name)


RunAlone(req) ==
    IF req.op = "provideDefinition"
    THEN provideDefinition(sqlite3, fileSystem, req.dataset, req.document,
                           req.position)
    ELSE provideHover(sqlite3, fileSystem, req.dataset, req.document,
                      req.position)

\* every database and file the request touched, and the file it answers
\* with, lies in the dataset
WithinDataset(dataset) ==
    /\ \A k \in 1..Len(calls) :
          /\ "dbPath" \in DOMAIN calls[k] => calls[k].dbPath.dir = dataset
          /\ "file" \in DOMAIN calls[k] => calls[k].file.dir = dataset
    /\ result.kind = "location" => result.file.dir = dataset

\* C18, independent requests under interleaving: a definition or hover
\* request that read the selected dataset at its start answers what it
\* would have answered running alone on that dataset, whatever was selected
\* while it ran, and takes its database and all its files from that dataset.
IndependentRequests ==
    pc \in SessionOps =>
        /\ result = RunAlone(request).ret
        /\ WithinDataset(request.dataset)

\* a definition request that the database did not resolve and the files
\* did, finished after another dataset was selected
IndependentRequestsWitness ==
    /\ pc = "provideDefinition"
    /\ selectedDataset # request.dataset
    /\ result.kind = "location"
    /\ \E k \in 1..Len(calls) : calls[k].op = "resolveForeignKey"
    /\ \E k \in 1..Len(calls) : calls[k].op = "findRecordLineInFile"


(***************************************************************************)
(* The recent datasets                                                     *)
(***************************************************************************)
Entries(list) == {list[k] : k \in 1..Len(list)}

NoDuplicates(list) ==
    \A i, j \in 1..Len(list) : list[i] = list[j] => i = j

\* C26, recent-datasets invariant: from a stored list without duplicates of
\* at most 10 entries, after any setSelectedDataset and removeRecentDataset
\* operations the list of recent datasets holds no path twice, has at most
\* 10 entries, and the list in global state equals the list in memory.
RecentDatasetsInvariant ==
    /\ NoDuplicates(recentDatasets)
    /\ Len(recentDatasets) <= MaxRecentDatasets
    /\ globalState = recentDatasets

\* a dataset that was not in a full list has been selected
RecentDatasetsInvariantWitness ==
    /\ pc = "setSelectedDataset"
    /\ Len(recentDatasets) = MaxRecentDatasets
    /\ recentDatasets[1] = "/ws/full"
    /\ recentDatasets[2] = "/d9"
    /\ "/ws/text" \notin Entries(recentDatasets)

\* C27, most recent first: right after setSelectedDataset(p) with p not
\* empty, the selected dataset is p and p heads the list of recent
\* datasets; the entries behind it are the other entries of the list
\* before, in their order, cut at the tail only as far as the list would
\* exceed 10.
MostRecentFirst ==
    [][(pc' = "setSelectedDataset" /\ request'.dataset # "")
        => /\ selectedDataset' = request'.dataset
           /\ recentDatasets'[1] = request'.dataset
           /\ Tail(recentDatasets') =
                 SubSeq(Without(recentDatasets, request'.dataset), 1,
                        Len(recentDatasets') - 1)
           /\ Len(recentDatasets') =
                 Min(Len(Without(recentDatasets, request'.dataset)) + 1,
                     MaxRecentDatasets)]_vars

\* an entry from the middle of a full list has been selected
MostRecentFirstWitness ==
    /\ pc = "setSelectedDataset"
    /\ request.dataset = "/d5"
    /\ selectedDataset = "/d5"
    /\ Len(recentDatasets) = MaxRecentDatasets
    /\ recentDatasets[1] = "/d5"
    /\ recentDatasets[2] = "/d1"

\* C28, removal leaves the selection: removeRecentDataset(p) takes p out of
\* the list of recent datasets (and the stored list with it) and changes
\* nothing else; the selected dataset and the selected database stay, also
\* when p is the selected dataset.
RemovalLeavesSelection ==
    [][pc' = "removeRecentDataset"
        => /\ recentDatasets' = Without(recentDatasets, request'.dataset)
           /\ request'.dataset \notin Entries(recentDatasets')
           /\ globalState' = recentDatasets'
           /\ selectedDataset' = selectedDataset
           /\ selectedDatabase' = selectedDatabase
           /\ storedDatabase' = storedDatabase
           /\ UNCHANGED envVars]_vars

\* a definition request answered on a selected dataset that was removed
\* from the list of recent datasets
RemovalLeavesSelectionWitness ==
    /\ pc = "provideDefinition"
    /\ result.kind = "location"
    /\ selectedDataset = "/ws/full"
    /\ selectedDatabase = "/ws/full/project.db"
    /\ selectedDataset \notin Entries(recentDatasets)


(***************************************************************************)
(* The hover preview                                                       *)
(***************************************************************************)
\* the positions of a field in a list
PositionsOf(list, f) == {k \in 1..Len(list) : list[k] = f}

ResolvedFile == PathJoin(request.dataset, CursorResolution.fileName)

\* the name the target file is scanned for: the record's name, or the
\* cursor's value when the record has none
ResolvedName ==
    IF /\ NameColumn \in DOMAIN CursorResolution.record.fields
       /\ CursorResolution.record.fields[NameColumn] # <<>>
    THEN CursorResolution.record.fields[NameColumn]
    ELSE CursorColumn.columnValue

\* C22, definition target for a database hit: when resolveForeignKey
\* returns a record, provideDefinition answers not-found if the mapped
\* target file is not in the dataset; otherwise a location in that file and
\* no other, on the first line the scan for the record's name (the cursor's
\* value when the record has no name) finds, and on line 0 when it finds
\* none.
DefinitionTarget ==
    (pc = "provideDefinition" /\ ResolvedByDatabase)
    => IF ~ExistsSync(fileSystem, ResolvedFile)
       THEN result = Undefined
       ELSE /\ result.kind = "location"
            /\ result.file = ResolvedFile
            /\ result.character = 0
            /\ IF RecordLines(ResolvedFile, ResolvedName) = {}
               THEN result.line = 0
               ELSE /\ result.line \in RecordLines(ResolvedFile, ResolvedName)
                    /\ \A i \in RecordLines(ResolvedFile, ResolvedName) :
                          result.line <= i

\* a record found by its key, whose name stands on two lines of the file
DefinitionTargetWitness ==
    /\ pc = "provideDefinition"
    /\ ResolvedByDatabase
    /\ ResolvedName # CursorColumn.columnValue
    /\ Cardinality(RecordLines(ResolvedFile, ResolvedName)) = 2
    /\ result.kind = "location"
    /\ result.line = 2

(***************************************************************************)
(* The code action's target                                                *)
(***************************************************************************)
\* the target table the database declares for the cursor's column
DeclaredTargetTable ==
    LET foreignKeys == TableOf(DbAt(fileSystem, RequestDbPath), RequestTable).fks
        k == CHOOSE k \in 1..Len(foreignKeys) :
                /\ foreignKeys[k].from = CursorColumn.columnName
                /\ \A j \in 1..(k - 1) :
                      foreignKeys[j].from # CursorColumn.columnName
    IN  foreignKeys[k].table

\* the one action: 'Open in Database Browser' on a table and the cursor's
\* value
OneAction(targetTable) ==
    /\ result.kind = "array"
    /\ Len(result.items) = 1
    /\ result.items[1].title = "Open in Database Browser"
    /\ result.items[1].arguments = <<targetTable, CursorColumn.columnValue>>

\* C24, code action target selection: provideCodeActions offers exactly one
\* 'Open in Database Browser' action on (targetTable, cursor value) when the
\* cursor's column is a declared foreign key and resolveForeignKey
\* succeeded (the target the database declares) or the guess map has the
\* column (the guess); it guesses only after resolveForeignKey returned
\* not-found, and offers no action in every other case.
CodeActionTarget ==
    pc = "provideCodeActions" =>
        /\ IF OnValue /\ DatabaseAvailable /\ CursorIsForeignKey
           THEN IF Truthy(CursorResolution)
                THEN OneAction(DeclaredTargetTable)
                ELSE IF CursorColumn.columnName \in DOMAIN actionColumnTableMap
                THEN OneAction(actionColumnTableMap[CursorColumn.columnName])
                ELSE result = Array(<<>>)
           ELSE result = Array(<<>>)
        /\ (\E k \in 1..Len(calls) : calls[k].op = "guessTargetTable")
              => /\ OnValue /\ DatabaseAvailable /\ CursorIsForeignKey
                 /\ ~Truthy(CursorResolution)

\* the database did not resolve the cursor's value and the guess map names
\* a table for its column
CodeActionTargetWitness ==
    /\ pc = "provideCodeActions"
    /\ OnValue /\ DatabaseAvailable /\ CursorIsForeignKey
    /\ ~Truthy(CursorResolution)
    /\ CursorColumn.columnName \in DOMAIN actionColumnTableMap
    /\ Len(result.items) = 1
    /\ \E k \in 1..Len(calls) : calls[k].op = "guessTargetTable"

(***************************************************************************)
(* The code lenses' placement                                              *)
(***************************************************************************)
LensLines == request.document.lines

LensHeaderIndex == findHeaderLine(LensLines, 5)

LensHeaderTokens == parseLineTokens(LensLines[LensHeaderIndex + 1])

\* the index of a column in the header, -1 when the header lacks it
HeaderIndexOf(column) ==
    IF \E k \in 1..Len(LensHeaderTokens) : LensHeaderTokens[k].value = column
    THEN (CHOOSE k \in 1..Len(LensHeaderTokens) :
            /\ LensHeaderTokens[k].value = column
            /\ \A j \in 1..(k - 1) : LensHeaderTokens[j].value # column) - 1
    ELSE -1

\* the declared foreign-key columns the header has, in the order declared
HeaderForeignKeys ==
    SelectSeq(DeclaredForeignKeys, LAMBDA fk : HeaderIndexOf(fk) # -1)

\* those of them line i reaches
InRange(i) ==
    SelectSeq(HeaderForeignKeys,
              LAMBDA fk : HeaderIndexOf(fk) < Len(parseLineTokens(LensLines[i + 1])))

\* line i is a data line: after the header, not blank and no comment
IsDataLine(i) ==
    /\ i > LensHeaderIndex
    /\ Len(Trim(LensLines[i + 1])) > 0
    /\ Trim(LensLines[i + 1])[1] # "#"

\* the title of the lens of line i: its in-range foreign-key columns with
\* the line's values
LensTitle(i) ==
    ReferencedPrefix \o
    Join([k \in 1..Len(InRange(i)) |->
            getDisplayName(InRange(i)[k]) \o <<":", " ">> \o
            parseLineTokens(LensLines[i + 1])[HeaderIndexOf(InRange(i)[k]) + 1].value],
         <<" ", "|", " ">>)

\* C25, code lens placement: provideCodeLenses emits at most one lens per
\* line, only on the non-blank, non-comment lines after the header, and on
\* such a line exactly when a declared foreign-key column of the header has
\* an index below the line's number of tokens; the lens lists those columns
\* with the line's values.  Without a database, without declared foreign
\* keys or without one of them in the header it emits nothing.
CodeLensPlacement ==
    pc = "provideCodeLenses" =>
        /\ result.kind = "array"
        /\ IF request.dataset # NoDataset /\ DatabaseAvailable
              /\ RequestTable # NoString /\ LensHeaderIndex # -1
              /\ Len(HeaderForeignKeys) > 0
           THEN /\ \A k \in 1..Len(result.items) :
                      /\ result.items[k].line \in 0..(Len(LensLines) - 1)
                      /\ IsDataLine(result.items[k].line)
                      /\ Len(InRange(result.items[k].line)) > 0
                      /\ result.items[k].title = LensTitle(result.items[k].line)
                      /\ \A j \in 1..Len(result.items) :
                            result.items[j].line = result.items[k].line => j = k
                /\ \A i \in 0..(Len(LensLines) - 1) :
                      (IsDataLine(i) /\ Len(InRange(i)) > 0)
                      => \E k \in 1..Len(result.items) : result.items[k].line = i
           ELSE result.items = <<>>

\* lenses on a document with a comment above the header, a blank line, a
\* comment and a row of one token below it: one for each row that reaches
\* a foreign-key column, the shortest of them listing one column
CodeLensPlacementWitness ==
    /\ pc = "provideCodeLenses"
    /\ request.document = TargetDocument
    /\ LensHeaderIndex = 1
    /\ Len(HeaderForeignKeys) = 3
    /\ Len(result.items) = 4
    /\ \E k \in 1..Len(result.items) : Len(InRange(result.items[k].line)) = 1


(***************************************************************************)
(* The hover provider's own locator against the tokenizer                  *)
(***************************************************************************)
\* C23, the locators agree: on every line and cursor offset the hover
\* provider's own locator finds a column exactly when findTokenAtPosition
\* on parseLineTokens(line) finds a token, and then the same index and the
\* same value; also one past a token's last character and on blank lines.
InlineLocatorAgrees ==
    pc = "inline" =>
        /\ result.found = cursorToken.found
        /\ result.found =>
              /\ result.index = cursorToken.index
              /\ result.value = cursorToken.token.value

(***************************************************************************)
(* The single browser panel.                                               *)
(***************************************************************************)
\* at most one panel exists, and it is the one the provider holds
SinglePanel ==
    /\ Cardinality(DOMAIN panels) <= 1
    /\ DOMAIN panels = IF panel = NoPanel THEN {} ELSE {panel}

\* the step is a call of openTable
OpenTableStep == pc' \in {"openTable", "openReference"}

\* openTable creates a panel only when there is none
CreatesOnlyWhenNone ==
    OpenTableStep /\ panelsCreated' # panelsCreated
        => /\ panel = NoPanel
           /\ panelsCreated' = panelsCreated + 1
           /\ panel' = panelsCreated'

\* openTable keeps the panel there is, and reveals it
RevealsExisting ==
    /\ panel' = panel
    /\ DOMAIN panels' = DOMAIN panels
    /\ result'.revealed

\* a dispose clears the panel reference
DisposeClears == pc' = "dispose" => panel' = NoPanel /\ panels' = <<>>

\* loadTableData does nothing while there is no panel
LoadDoesNothing ==
    pc' = "loadTable" /\ panel = NoPanel => UNCHANGED browserVars

\* C29 as the specification states it: at most one database-browser panel
\* exists; openTable creates a panel only when none exists and otherwise
\* reveals the existing one; after a dispose the panel reference is cleared
\* and loadTableData does nothing until the next openTable.
SingleBrowserPanelAsStated ==
    /\ []SinglePanel
    /\ [][CreatesOnlyWhenNone]_vars
    /\ [][OpenTableStep /\ panel # NoPanel => RevealsExisting]_vars
    /\ [][DisposeClears]_vars
    /\ [][LoadDoesNothing]_vars

\* C29, amended: at most one database-browser panel exists; openTable
\* creates a panel only when none exists, and when one exists it never
\* replaces it and reveals it once its own checks (a dataset is selected,
\* its project.db exists, better-sqlite3 is available, the table name is an
\* identifier) have passed; after a dispose the panel reference is cleared
\* and loadTableData does nothing until the next openTable.
SingleBrowserPanel ==
    /\ []SinglePanel
    /\ [][CreatesOnlyWhenNone]_vars
    /\ [][OpenTableStep /\ panel # NoPanel
            => /\ panel' = panel
               /\ DOMAIN panels' = DOMAIN panels
               /\ (openTableChecks(sqlite3, fileSystem, selectedDataset,
                                   request'.tableName) => RevealsExisting)]_vars
    /\ [][DisposeClears]_vars
    /\ [][LoadDoesNothing]_vars

\* after a dispose and a message that found no panel, an openReference
\* made the second panel, the only one there is
SingleBrowserPanelWitness ==
    /\ pc = "openReference"
    /\ result.created
    /\ panelsCreated = 2
    /\ panel = 2
    /\ DOMAIN panels = {2}
    /\ panels[2].kind = "table"

====
